---- MODULE Spec2Model ----
(***************************************************************************)
(* PhantomScan: the daily pipeline fetch -> exists -> score -> rank ->     *)
(* emit, its dated persistence (raw JSONL files, the scored parquet dump,  *)
(* the DuckDB table scored_candidates, the feed and watchlist files) and   *)
(* the registry existence prober.                                          *)
(*                                                                         *)
(* Scores are integers in 0..100 (hundredths).  The clock `now` counts     *)
(* quarter days, so that two runs can fall on the same calendar date.         *)
(***************************************************************************)
EXTENDS Integers, Sequences, FiniteSets, TLC

\* ------------------------------------------------------------------ bounds
MaxLen == 2      \* longest list a source returns in one fetch (`limit`)
MaxOps == 3      \* pipeline operations per behaviour
MaxTime == 5     \* last clock reading (quarter days)
MaxTopN == 2     \* largest top_n handed to generate_feed

\* ------------------------------------------------------------- the domain
Ecosystems == {"pypi", "npm"}
Dates == {1, 2}
None == "None"

StartTime == 4

DateOf(t) == t \div 4

SubscoreNames ==
  {"name_suspicion", "known_hallucination", "content_risk", "script_risk",
   "newness", "repo_missing", "maintainer_reputation", "docs_absence",
   "provenance_risk", "repo_asymmetry", "download_anomaly", "version_flip"}

\* The packages the registries know, with the metadata a source adapter
\* normalises into a PackageCandidate.
Candidate(e, n) ==
  [ecosystem |-> e, name |-> n, version |-> "1.0",
   created_at |-> IF n = "a" THEN 1 ELSE 4,
   homepage |-> IF e = "npm" THEN "http://home" ELSE None,
   repository |-> None,
   maintainers_count |-> IF e = "npm" THEN 2 ELSE 1,
   has_install_scripts |-> (e = "npm")]

Universe == {Candidate("pypi", "a"), Candidate("pypi", "b")}

KeyOf(x) == <<x.ecosystem, x.name>>

\* ------------------------------------------------------ sequence helpers
Range(s) == {s[i] : i \in DOMAIN s}

NoDup(s) == \A i, j \in DOMAIN s : i # j => s[i] # s[j]

SeqsOver(S, n) == UNION {[1..k -> S] : k \in 0..n}

Perms(S) == {p \in [1..Cardinality(S) -> S] : NoDup(p)}

Min(a, b) == IF a < b THEN a ELSE b
Max(a, b) == IF a > b THEN a ELSE b


\* ===================================================== existence prober
\* What the registry does with one request: a status code, a transport
\* timeout (httpx.TimeoutException) or any other exception.
Responses == {"200", "404", "405", "500", "timeout", "exc"}

\* A probe result: the returned pair, the HTTP calls issued, and whether an
\* exception left the function.
Probe(exists, reason, calls) ==
  [exists |-> exists, reason |-> reason, calls |-> calls, raised |-> FALSE]

\* Off-by-one-branch variant of the status mapping: a 404 is reported "error".
StatusDecisionNo404(status, calls) ==
  IF status = "200" THEN Probe(TRUE, "ok", calls)
  ELSE Probe(FALSE, "error", calls)

\* The tail shared by both checkers: 200 => ok, 404 => 404, else error;
\* TimeoutException => timeout, other exception => error.
StatusDecision(status, calls) ==
  IF status = "timeout" THEN Probe(FALSE, "timeout", calls)
  ELSE IF status = "exc" THEN Probe(FALSE, "error", calls)
  ELSE IF status = "200" THEN Probe(TRUE, "ok", calls)
  ELSE IF status = "404" THEN Probe(FALSE, "404", calls)
  ELSE Probe(FALSE, "error", calls)

\* Variant of the npm checker that falls back to GET on every HEAD answer
\* other than 200.
NpmGetAfterAny(beh) ==
  IF beh.head \in {"200", "timeout", "exc"}
  THEN StatusDecision(beh.head, <<"HEAD">>)
  ELSE StatusDecision(beh.get, <<"HEAD", "GET">>)

_check_npm_existence(beh) ==
  IF beh.head \in {"200", "404", "timeout", "exc"}
  THEN StatusDecision(beh.head, <<"HEAD">>)
  ELSE StatusDecision(beh.get, <<"HEAD", "GET">>)

_check_pypi_existence(beh) == StatusDecision(beh.get, <<"GET">>)

exists_in_registry(offline, ecosystem, beh) ==
  IF offline THEN Probe(FALSE, "offline", <<>>)
  ELSE IF ecosystem = "npm" THEN _check_npm_existence(beh)
  ELSE IF ecosystem = "pypi" THEN _check_pypi_existence(beh)
  ELSE Probe(FALSE, "error", <<>>)

\* ============================================================ lint_scripts
MaxHits == 12    \* most (script, pattern) matches in one scripts table
MaxScripts == 3  \* most scripts in one scripts table

\* len(DANGEROUS_PATTERNS): each script can match each pattern once.
PatternCount == 23

\* Risks of lint_scripts are counted in 1/300, in which hit_count / 15.0 and
\* the constants 0.3, 0.4, 0.5, 0.7 and 1.0 are all whole.
LintUnit == 300

\* A package.json scripts table, as far as lint_scripts reads it: the number
\* of scripts, whether install, preinstall or postinstall is among them, and
\* hit_count, the number of (script, dangerous pattern) matches.
ScriptsTable(count, auto_run, hits) ==
  [count |-> count, auto_run |-> auto_run, hits |-> hits]

NoScripts == ScriptsTable(0, FALSE, 0)

ScriptsTables ==
  {NoScripts}
    \cup UNION {{ScriptsTable(n, a, h) :
                   a \in BOOLEAN, h \in 0..Min(MaxHits, PatternCount * n)} :
                 n \in 1..MaxScripts}

lint_scripts(scripts) ==
  IF scripts.count = 0 THEN [risk |-> 0, reasons |-> <<>>]
  ELSE LET base_score == Min(scripts.hits * 20, 210)
           found == IF scripts.auto_run THEN <<"Has auto-run scripts">> ELSE <<>>
           matched == IF scripts.hits > 0 THEN <<"Script matches">> ELSE <<>>
       IN  IF scripts.auto_run /\ scripts.hits > 0
           THEN [risk |-> Min(Min(base_score + 90, LintUnit), LintUnit),
                 reasons |-> found \o matched
                             \o <<"CRITICAL: Auto-run scripts contain dangerous patterns">>]
           ELSE IF scripts.auto_run
                THEN [risk |-> Min(Max(base_score, 120), LintUnit),
                      reasons |-> found \o matched]
                ELSE [risk |-> Min(base_score, LintUnit), reasons |-> found \o matched]

\* ================================================================ scorer
NewPackageDays == 2

\* policy.weights, in hundredths; a missing weight counts 0.
Weights ==
  [name_suspicion |-> 30, newness |-> 25, repo_missing |-> 15,
   maintainer_reputation |-> 15, script_risk |-> 10, version_flip |-> 3]

WeightOf(weights, s) == IF s \in DOMAIN weights THEN weights[s] ELSE 0

\* policy.heuristics.lookups; a missing switch reads True.
DefaultLookups == [enable_github |-> TRUE, enable_npm_downloads |-> TRUE]

\* What a signal hands back: its subscore (hundredths), its reasons, the HTTP
\* calls it issued, and whether an exception left it.
Signal(s, reasons) ==
  [score |-> s, reasons |-> reasons, calls |-> <<>>, raised |-> FALSE]

Raises == [score |-> 0, reasons |-> <<>>, calls |-> <<>>, raised |-> TRUE]

\* What the policy lists, the corpus and the candidate's raw_metadata hold for
\* one candidate: prefix/suffix hits and the smallest fuzz distance to a
\* canonical name (0 when none is within reach), the corpus verdict, the
\* scripts table, the release files and their scan, the documentation link,
\* the provenance indicator and the version-flip verdict.
Facts(prefix, suffix, distance, hallucination, scripts, artifacts, has_docs, provenance, flip) ==
  [prefix |-> prefix, suffix |-> suffix, distance |-> distance,
   hallucination |-> hallucination, scripts |-> scripts, artifacts |-> artifacts,
   has_docs |-> has_docs, provenance |-> provenance, flip |-> flip]

\* A candidate whose raw_metadata is empty and whose name hits no list.
PlainFacts ==
  Facts(FALSE, FALSE, 0, FALSE, NoScripts, [urls |-> FALSE, fails |-> FALSE, risk |-> 0],
        FALSE, 100, 0)

FuzzyThreshold == 2

_score_name_suspicion(facts) ==
  LET p == IF facts.prefix THEN 80 ELSE 0
      s == IF facts.suffix THEN Max(p, 60) ELSE p
      f == IF 0 < facts.distance /\ facts.distance <= FuzzyThreshold
           THEN Max(s, ((100 - (facts.distance * 100) \div FuzzyThreshold) * 90) \div 100)
           ELSE s
  IN  Signal(Min(100, f),
             (IF facts.prefix THEN <<"Contains brand prefix">> ELSE <<>>)
             \o (IF facts.suffix THEN <<"Contains trope suffix">> ELSE <<>>)
             \o (IF 0 < facts.distance /\ facts.distance <= FuzzyThreshold
                 THEN <<"Very similar to canonical">> ELSE <<>>))

_score_known_hallucination(facts) ==
  IF facts.hallucination THEN Signal(100, <<"Known hallucinated name">>)
  ELSE Signal(0, <<>>)

_score_npm_content_risk(facts) ==
  IF facts.scripts.count = 0 THEN Signal(0, <<>>)
  ELSE LET l == lint_scripts(facts.scripts)
       IN  Signal((l.risk * 100) \div LintUnit, l.reasons)

\* The release files are downloaded when raw_metadata lists any; an error in
\* the analysis is caught and reported in the reasons.
_score_pypi_content_risk(facts) ==
  IF ~facts.artifacts.urls THEN Signal(0, <<"No release files found">>)
  ELSE IF facts.artifacts.fails
       THEN [Signal(0, <<"Artifact analysis failed">>) EXCEPT !.calls = <<"GET files">>]
       ELSE [Signal(Min(facts.artifacts.risk, 100),
                    IF facts.artifacts.risk > 0 THEN <<"Artifact findings">> ELSE <<>>)
               EXCEPT !.calls = <<"GET files">>]

\* Variant of the content signal that looks at the content offline too.
ContentRiskUnguarded(c, offline, facts) ==
  IF c.ecosystem = "npm" THEN _score_npm_content_risk(facts)
  ELSE _score_pypi_content_risk(facts)

_score_content_risk(c, offline, facts) ==
  IF offline THEN Signal(0, <<"Offline mode: content analysis skipped">>)
  ELSE IF c.ecosystem = "npm" THEN _score_npm_content_risk(facts)
  ELSE IF c.ecosystem = "pypi" THEN _score_pypi_content_risk(facts)
  ELSE Signal(0, <<>>)

_score_script_risk(c) ==
  IF c.ecosystem = "npm" /\ c.has_install_scripts
  THEN Signal(100, <<"Has install scripts">>)
  ELSE Signal(0, <<>>)

_score_newness(c, now) ==
  LET age_days == (now - c.created_at) \div 4
  IN  IF age_days <= 0 THEN Signal(100, <<"Published today">>)
      ELSE IF age_days <= NewPackageDays
           THEN Signal(100 - (age_days * 100) \div NewPackageDays, <<"Only n days old">>)
           ELSE Signal(0, <<>>)

_score_repo_missing(c) ==
  IF c.repository = None /\ c.homepage = None
  THEN Signal(100, <<"No repository or homepage">>)
  ELSE IF c.repository = None THEN Signal(50, <<"No repository URL">>)
  ELSE IF c.homepage = None THEN Signal(50, <<"No homepage URL">>)
  ELSE Signal(0, <<>>)

_score_maintainer_reputation(c) ==
  IF c.maintainers_count <= 1 THEN Signal(100, <<"Single maintainer">>)
  ELSE IF c.maintainers_count = 2 THEN Signal(50, <<"Only 2 maintainers">>)
  ELSE Signal(0, <<>>)

_score_docs_absence(c, facts) ==
  LET has_docs == c.ecosystem = "pypi" /\ facts.has_docs
  IN  IF c.homepage = None /\ c.repository = None /\ ~has_docs
      THEN Signal(100, <<"No homepage, repository, or documentation links">>)
      ELSE IF ~has_docs THEN Signal(50, <<"No dedicated documentation URL">>)
      ELSE Signal(0, <<>>)

_score_provenance_risk(c, offline, lookups, facts) ==
  IF offline THEN Signal(0, <<"Offline mode: provenance check skipped">>)
  ELSE IF ~lookups.enable_github THEN Signal(0, <<"Provenance checks disabled">>)
  ELSE IF c.ecosystem = "npm"
       THEN IF facts.provenance > 80
            THEN Signal(facts.provenance, <<"No npm provenance signatures found">>)
            ELSE IF facts.provenance > 0
                 THEN Signal(facts.provenance, <<"Weak provenance indicators">>)
                 ELSE Signal(0, <<>>)
       ELSE Signal(0, <<>>)

\* get_repo_facts(repo_url, policy, offline=False) is called with the URL
\* alone, which is a TypeError before any request is made.
_score_repo_asymmetry(c, offline, lookups) ==
  IF offline THEN Signal(0, <<"Offline mode: repo check skipped">>)
  ELSE IF c.repository = None THEN Signal(0, <<>>)
  ELSE IF ~lookups.enable_github THEN Signal(0, <<"GitHub checks disabled">>)
  ELSE Raises

\* npm_weekly_downloads(name, policy, offline=False) is called with the name
\* alone, which is a TypeError before any request is made.
_score_download_anomaly(c, offline, lookups) ==
  IF offline THEN Signal(0, <<"Offline mode: download check skipped">>)
  ELSE IF c.ecosystem # "npm" THEN Signal(0, <<>>)
  ELSE IF ~lookups.enable_npm_downloads THEN Signal(0, <<"Download checks disabled">>)
  ELSE Raises

\* analyze_version_flip reads the packument it is handed: 0.7 for an npm
\* release that added install scripts, 0 otherwise and for PyPI.
analyze_version_flip(ecosystem, facts) ==
  IF ecosystem = "npm" /\ facts.flip > 0
  THEN Signal(facts.flip, <<"Version flip">>)
  ELSE Signal(0, <<>>)

_score_version_flip(c, offline, facts) ==
  IF offline THEN Signal(0, <<"Offline mode: version history check skipped">>)
  ELSE analyze_version_flip(c.ecosystem, facts)

\* The twelve signals in firing order.
SignalOrder ==
  <<"name_suspicion", "known_hallucination", "content_risk", "script_risk",
    "newness", "repo_missing", "maintainer_reputation", "docs_absence",
    "provenance_risk", "repo_asymmetry", "download_anomaly", "version_flip">>

SignalOf(s, c, now, offline, lookups, facts) ==
  CASE s = "name_suspicion" -> _score_name_suspicion(facts)
    [] s = "known_hallucination" -> _score_known_hallucination(facts)
    [] s = "content_risk" -> _score_content_risk(c, offline, facts)
    [] s = "script_risk" -> _score_script_risk(c)
    [] s = "newness" -> _score_newness(c, now)
    [] s = "repo_missing" -> _score_repo_missing(c)
    [] s = "maintainer_reputation" -> _score_maintainer_reputation(c)
    [] s = "docs_absence" -> _score_docs_absence(c, facts)
    [] s = "provenance_risk" -> _score_provenance_risk(c, offline, lookups, facts)
    [] s = "repo_asymmetry" -> _score_repo_asymmetry(c, offline, lookups)
    [] s = "download_anomaly" -> _score_download_anomaly(c, offline, lookups)
    [] OTHER -> _score_version_flip(c, offline, facts)

RECURSIVE Flatten(_)
Flatten(ss) == IF ss = <<>> THEN <<>> ELSE Head(ss) \o Flatten(Tail(ss))

\* The breakdown assembled from the results of the signals: the first
\* exception leaves score, and the signals after it never run.  Otherwise the
\* breakdown holds the twelve subscores and the reasons in firing order.
Breakdown(sig) ==
  LET failing == {i \in DOMAIN sig : sig[i].raised}
      upto == Cardinality({i \in DOMAIN sig : \A j \in failing : i < j})
  IN  [raised |-> failing # {},
       sub |-> IF failing # {} THEN <<>>
               ELSE [s \in SubscoreNames |->
                       sig[CHOOSE i \in DOMAIN sig : SignalOrder[i] = s].score],
       reasons |-> IF failing # {} THEN <<>>
                   ELSE Flatten([i \in 1..upto |-> sig[i].reasons]),
       calls |-> Flatten([i \in 1..upto |-> sig[i].calls])]

\* PackageScorer.score: the twelve signals fire in order.
score(c, now, offline, lookups, facts) ==
  Breakdown([i \in DOMAIN SignalOrder |->
               SignalOf(SignalOrder[i], c, now, offline, lookups, facts)])

RECURSIVE SumOver(_, _)
SumOver(S, f) ==
  IF S = {} THEN 0
  ELSE LET x == CHOOSE y \in S : TRUE IN f[x] + SumOver(S \ {x}, f)

\* Variant of the total that is not clamped.
WeightedSumUnclamped(sub, weights) ==
  SumOver(SubscoreNames, [s \in SubscoreNames |-> sub[s] * WeightOf(weights, s)]) \div 100

compute_weighted_score(sub, weights) ==
  LET total == SumOver(SubscoreNames,
                       [s \in SubscoreNames |-> sub[s] * WeightOf(weights, s)]) \div 100
  IN  Min(100, Max(0, total))


\* ======================================================== score_candidates
\* The registry behaviours met while the pipeline probes a candidate.
PipelineBehaviours ==
  {[head |-> "200", get |-> "200"], [head |-> "404", get |-> "404"]}

NotFoundText(reason) ==
  CASE reason = "404" -> "Package not found in registry (404)"
    [] reason = "timeout" -> "Package not found in registry (timeout)"
    [] reason = "offline" -> "Package not found in registry (offline)"
    [] OTHER -> "Package not found in registry (error)"

WatchlistEntry(c, reason, now) ==
  [ecosystem |-> c.ecosystem, name |-> c.name, not_found_reason |-> reason,
   first_seen_at |-> now]

\* What the raw_metadata of a stored candidate holds: nothing but, for a
\* package with install scripts, its scripts table.
FactsOf(c) ==
  IF c.has_install_scripts
  THEN [PlainFacts EXCEPT !.scripts = ScriptsTable(1, TRUE, 0)]
  ELSE PlainFacts

\* The ScoredCandidate built from breakdown b, with the reasons `extra` added
\* to it; when the scorer raised, the exception.
Scored(c, pr, b, pr_exists, extra, reason, now) ==
  IF b.raised
  THEN [kind |-> "raised", candidate |-> c, probe |-> pr, entry |-> <<>>]
  ELSE [kind |-> "scored", candidate |-> c, probe |-> pr,
        entry |-> [candidate |-> c, score |-> compute_weighted_score(b.sub, Weights),
                   breakdown |-> [sub |-> b.sub, reasons |-> b.reasons \o extra,
                                  exists_in_registry |-> pr_exists,
                                  not_found_reason |-> reason],
                   scored_at |-> now]]

\* Variant of the loop body that scores a not-found candidate even under
\* strict mode.
HandleOneNoGate(c, pr, strict, now, offline) ==
  Scored(c, pr, score(c, now, offline, DefaultLookups, FactsOf(c)), TRUE, <<>>,
         None, now)

\* One pass of the loop body for candidate c with probe result pr; an
\* exception of the scorer leaves the loop.
HandleOne(c, pr, strict, now, offline) ==
  IF strict /\ ~pr.exists
  THEN [kind |-> "watch", candidate |-> c, probe |-> pr,
        entry |-> WatchlistEntry(c, pr.reason, now)]
  ELSE Scored(c, pr, score(c, now, offline, DefaultLookups, FactsOf(c)), pr.exists,
              IF pr.exists THEN <<>> ELSE <<NotFoundText(pr.reason)>>,
              IF pr.exists THEN None ELSE pr.reason, now)

RECURSIVE InsertDesc(_, _)
InsertDesc(sorted, x) ==
  IF sorted = <<>> THEN <<x>>
  ELSE IF Head(sorted).score >= x.score
       THEN <<Head(sorted)>> \o InsertDesc(Tail(sorted), x)
       ELSE <<x>> \o sorted

\* list.sort(key=score, reverse=True): stable, equal scores keep their order.
RECURSIVE SortDesc(_)
SortDesc(s) ==
  IF s = <<>> THEN <<>>
  ELSE InsertDesc(SortDesc(SubSeq(s, 1, Len(s) - 1)), s[Len(s)])

RECURSIVE EntriesOf(_, _)
EntriesOf(handled, kind) ==
  IF handled = <<>> THEN <<>>
  ELSE (IF Head(handled).kind = kind THEN <<Head(handled).entry>> ELSE <<>>)
       \o EntriesOf(Tail(handled), kind)

ParquetRecord(sc) ==
  [ecosystem |-> sc.candidate.ecosystem, name |-> sc.candidate.name,
   version |-> sc.candidate.version, created_at |-> sc.candidate.created_at,
   score |-> sc.score,
   name_suspicion |-> sc.breakdown.sub["name_suspicion"],
   newness |-> sc.breakdown.sub["newness"],
   repo_missing |-> sc.breakdown.sub["repo_missing"],
   maintainer_reputation |-> sc.breakdown.sub["maintainer_reputation"],
   script_risk |-> sc.breakdown.sub["script_risk"],
   version_flip |-> sc.breakdown.sub["version_flip"],
   exists_in_registry |-> sc.breakdown.exists_in_registry,
   not_found_reason |-> IF sc.breakdown.not_found_reason = None THEN ""
                        ELSE sc.breakdown.not_found_reason,
   homepage |-> sc.candidate.homepage, repository |-> sc.candidate.repository,
   maintainers_count |-> sc.candidate.maintainers_count,
   has_install_scripts |-> sc.candidate.has_install_scripts,
   reasons |-> [joined |-> sc.breakdown.reasons]]

\* ================================================================ storage
\* A JSON column holds the serialised text of the list, not the list.
ToJson(list) == [json |-> list]

Row(sc, date) ==
  [date |-> date, ecosystem |-> sc.candidate.ecosystem, name |-> sc.candidate.name,
   version |-> sc.candidate.version, created_at |-> sc.candidate.created_at,
   score |-> sc.score, sub |-> sc.breakdown.sub,
   homepage |-> sc.candidate.homepage, repository |-> sc.candidate.repository,
   maintainers_count |-> sc.candidate.maintainers_count,
   has_install_scripts |-> sc.candidate.has_install_scripts,
   reasons |-> ToJson(sc.breakdown.reasons), scored_at |-> sc.scored_at]

RowsOf(table, date) == {r \in table : r.date = date}

DuplicateKey(records) ==
  \E i, j \in DOMAIN records : i # j /\ KeyOf(records[i]) = KeyOf(records[j])

\* StorageManager.insert_scored_candidates: DELETE then INSERT, each statement
\* committed on its own; a primary-key violation fails the INSERT only.
insert_scored_candidates(table, candidates, date) ==
  IF candidates = <<>> THEN [db |-> table, raised |-> FALSE]
  ELSE LET records == [i \in DOMAIN candidates |-> Row(candidates[i], date)]
           deleted == table \ RowsOf(table, date)
       IN  IF DuplicateKey(records) THEN [db |-> deleted, raised |-> TRUE]
           ELSE [db |-> deleted \cup Range(records), raised |-> FALSE]

SortedDesc(p) == \A i, j \in DOMAIN p : i < j => p[i].score >= p[j].score

\* StorageManager.get_scored_candidates: ORDER BY score DESC fixes the order
\* of rows of different score only; every order of tied rows is a possible
\* result.
get_scored_candidates(table, date) ==
  {p \in Perms(RowsOf(table, date)) : SortedDesc(p)}


\* ============================================================ file store
File(data) == [exists |-> TRUE, data |-> data]
Absent == [exists |-> FALSE, data |-> <<>>]

\* str.split("; ") of the JSON text of the reasons column: the text holds no
\* "; ", so the result is the one-element list holding the whole text.
SplitReasons(text) == <<text>>

FeedSubscores ==
  {"name_suspicion", "newness", "repo_missing", "maintainer_reputation",
   "script_risk", "version_flip"}

\* One entry of feed_data, built from a row of the table.
FeedItem(row) ==
  [ecosystem |-> row.ecosystem, name |-> row.name, version |-> row.version,
   created_at |-> row.created_at, score |-> row.score,
   breakdown |-> [s \in FeedSubscores |-> row.sub[s]],
   homepage |-> row.homepage, repository |-> row.repository,
   maintainers_count |-> row.maintainers_count,
   has_install_scripts |-> row.has_install_scripts,
   reasons |-> SplitReasons(row.reasons), scored_at |-> row.scored_at]

CsvRow(item) == <<item.ecosystem, item.name, item.score>>

WatchRow(entry) ==
  [ecosystem |-> entry.ecosystem, name |-> entry.name,
   not_found_reason |-> entry.not_found_reason,
   first_seen_at |-> entry.first_seen_at]

MapSeq(s, Op(_)) == [i \in DOMAIN s |-> Op(s[i])]

\* Variant of the selection that keeps the last top_n rows of the frame.
SelectTopTail(df, min_score, top_n) ==
  LET kept == SelectSeq(df, LAMBDA r : r.score >= min_score)
  IN  SubSeq(kept, Len(kept) - Min(top_n, Len(kept)) + 1, Len(kept))

\* df[df.score >= min_score].head(top_n)
SelectTop(df, min_score, top_n) ==
  LET kept == SelectSeq(df, LAMBDA r : r.score >= min_score)
  IN  SubSeq(kept, 1, Min(top_n, Len(kept)))

\* ----------------------------------------------------------- the pipeline
\* d is the persisted state: raw files, parquet dumps, the table, the feed
\* and watchlist files.

\* One source's fetch_recent: a list of distinct candidates of its ecosystem
\* (in any order), or an exception.
FetchOutcomes(e) ==
  {[raised |-> FALSE, list |-> l] :
     l \in {q \in SeqsOver({c \in Universe : c.ecosystem = e}, MaxLen) : NoDup(q)}}

FetchInputs ==
  {out \in [Ecosystems -> UNION {FetchOutcomes(e) : e \in Ecosystems}] :
     \A e \in Ecosystems : out[e] \in FetchOutcomes(e)}

FetchSource(d, date, e, ecosystems, out) ==
  IF e \notin ecosystems \/ out[e].raised \/ out[e].list = <<>> THEN d
  ELSE [d EXCEPT !.raw[date][e] = out[e].list]

FetchedFrom(e, ecosystems, out) ==
  IF e \notin ecosystems \/ out[e].raised THEN <<>> ELSE out[e].list

fetch_packages(d, ecosystems, date, out) ==
  [disk |-> FetchSource(FetchSource(d, date, "pypi", ecosystems, out),
                        date, "npm", ecosystems, out),
   candidates |-> FetchedFrom("pypi", ecosystems, out)
                  \o FetchedFrom("npm", ecosystems, out)]

\* The raw candidates of a date, files taken in the order glob yields them.
LoadRaw(d, date, globOrder) ==
  d.raw[date][globOrder[1]] \o d.raw[date][globOrder[2]]

GlobOrders == {<<"pypi", "npm">>, <<"npm", "pypi">>}

\* The end of score_candidates: sort, write the parquet dump, store the rows.
SaveScored(d, date, handled, scored, ins) ==
  [disk |-> [d EXCEPT !.parquet[date] = File(MapSeq(scored, ParquetRecord)),
                      !.db = ins.db],
   scored |-> scored, watchlist |-> EntriesOf(handled, "watch"),
   handled |-> handled, parsed |-> Len(handled), raised |-> ins.raised]

SortAndSave(d, date, handled, scored) ==
  SaveScored(d, date, handled, scored, insert_scored_candidates(d.db, scored, date))

ScoreLoop(d, date, handled) ==
  IF handled = <<>>
  THEN [disk |-> d, scored |-> <<>>, watchlist |-> <<>>, handled |-> <<>>,
        parsed |-> 0, raised |-> FALSE]
  ELSE IF \E i \in DOMAIN handled : handled[i].kind = "raised"
       THEN [disk |-> d, scored |-> <<>>, watchlist |-> <<>>, handled |-> <<>>,
             parsed |-> Len(handled), raised |-> TRUE]
       ELSE SortAndSave(d, date, handled, SortDesc(EntriesOf(handled, "scored")))

HandleAll(all_candidates, offline, behs, now, strict) ==
  [i \in DOMAIN all_candidates |->
     HandleOne(all_candidates[i],
               exists_in_registry(offline, all_candidates[i].ecosystem, behs[i]),
               strict, now, offline)]

score_candidates(d, date, offline, globOrder, behs, now, strict) ==
  ScoreLoop(d, date, HandleAll(LoadRaw(d, date, globOrder), offline, behs, now, strict))

_save_watchlist(d, date, watchlist) ==
  IF watchlist = <<>> THEN d
  ELSE [d EXCEPT !.watchjson[date] = File(MapSeq(watchlist, WatchRow)),
                 !.watchcsv[date] = File(MapSeq(watchlist, WatchRow))]

\* Variant of generate_feed without the early return on an empty frame.
GenerateFeedAlways(d, date, top_n, watchlist, df, pol) ==
  LET feed_data == MapSeq(SelectTop(df, pol.min_score, top_n), FeedItem)
      d1 == [d EXCEPT !.topNjson[date] = File(feed_data),
                      !.topNcsv[date] =
                         IF feed_data = <<>> THEN @
                         ELSE File(MapSeq(feed_data, CsvRow)),
                      !.feedmd[date] = File(MapSeq(feed_data, CsvRow))]
  IN  IF pol.write_watchlist /\ watchlist # <<>>
      THEN _save_watchlist(d1, date, watchlist)
      ELSE d1

\* df is the frame get_scored_candidates returned.
generate_feed(d, date, top_n, watchlist, df, pol) ==
  IF df = <<>> THEN d
  ELSE LET feed_data == MapSeq(SelectTop(df, pol.min_score, top_n), FeedItem)
           d1 == [d EXCEPT !.topNjson[date] = File(feed_data),
                           !.topNcsv[date] =
                              IF feed_data = <<>> THEN @
                              ELSE File(MapSeq(feed_data, CsvRow)),
                           !.feedmd[date] = File(MapSeq(feed_data, CsvRow))]
       IN  IF pol.write_watchlist /\ watchlist # <<>>
           THEN _save_watchlist(d1, date, watchlist)
           ELSE d1


\* GET /feed/{date}: 404 when topN.json is missing, else the file's content.
get_feed(d, date) ==
  IF ~d.topNjson[date].exists THEN [status |-> 404, content |-> <<>>]
  ELSE [status |-> 200, content |-> d.topNjson[date].data]

\* ================================================================= state
VARIABLES
  now,        \* the clock, in quarter days
  policy,     \* config/policy.yml: feed.strict, feed.min_score, feed.write_watchlist
  raw,        \* data/raw/{date}/{ecosystem}.jsonl
  parquet,    \* data/processed/{date}/scored.parquet
  db,         \* the rows of table scored_candidates
  topNjson,   \* data/feeds/{date}/topN.json
  topNcsv,    \* data/feeds/{date}/topN.csv
  feedmd,     \* data/feeds/{date}/feed.md
  watchjson,  \* data/feeds/{date}/watchlist.json
  watchcsv,   \* data/feeds/{date}/watchlist.csv
  ret,        \* per date, what the latest score_candidates call returned
  last,       \* the latest operation and its arguments
  exit,       \* exit status of the latest run-all
  ops,        \* operations performed so far
  probe,      \* one exists_in_registry call: its inputs and its result
  store,      \* the latest insert_scored_candidates call and the table before it
  writer,     \* the write in progress on the table or on the feed files
  twice,      \* the first of two run-all invocations: its inputs and outputs
  call        \* one call of a function or endpoint: its inputs and its result

vars == <<now, policy, raw, parquet, db, topNjson, topNcsv, feedmd, watchjson,
          watchcsv, ret, last, exit, ops, probe, store, writer, twice, call>>

\* The variables the pipeline operations do not touch.
aux == <<probe, store, writer, twice, call>>

Disk ==
  [raw |-> raw, parquet |-> parquet, db |-> db, topNjson |-> topNjson,
   topNcsv |-> topNcsv, feedmd |-> feedmd, watchjson |-> watchjson,
   watchcsv |-> watchcsv]

SetDisk(d) ==
  /\ raw' = d.raw
  /\ parquet' = d.parquet
  /\ db' = d.db
  /\ topNjson' = d.topNjson
  /\ topNcsv' = d.topNcsv
  /\ feedmd' = d.feedmd
  /\ watchjson' = d.watchjson
  /\ watchcsv' = d.watchcsv

NoReturn ==
  [valid |-> FALSE, scored |-> <<>>, watchlist |-> <<>>, handled |-> <<>>,
   parsed |-> 0]

Returned(s) ==
  [valid |-> ~s.raised, scored |-> s.scored, watchlist |-> s.watchlist,
   handled |-> s.handled, parsed |-> s.parsed]

\* op: the operation; fed: generate_feed ran in it and wrote the feed files;
\* complete: it ran to its end (run-all: through fetch, score and feed).
Op(name, date, top_n, fed, complete) ==
  [op |-> name, date |-> date, top_n |-> top_n, fed |-> fed, complete |-> complete]

NoProbe ==
  [offline |-> FALSE, ecosystem |-> "pypi", beh |-> [head |-> "200", get |-> "200"],
   done |-> FALSE, result |-> Probe(FALSE, "error", <<>>)]

NoStore ==
  [called |-> FALSE, before |-> {}, candidates |-> <<>>, date |-> 1, raised |-> FALSE]

NoWrite ==
  [pc |-> "idle", kind |-> "none", date |-> 1, failed |-> FALSE, old |-> <<>>,
   new |-> <<>>, records |-> <<>>]

NoCall == [fn |-> "none", done |-> TRUE]

NoRun ==
  [stage |-> 0, offline |-> FALSE, out |-> <<>>, reg |-> <<>>, after |-> <<>>,
   exit |-> 0]

PipelineInit ==
  /\ now = StartTime
  /\ policy \in [strict : BOOLEAN, min_score : {0, 50}, write_watchlist : {TRUE}]
  /\ raw = [d \in Dates |-> [e \in Ecosystems |-> <<>>]]
  /\ parquet = [d \in Dates |-> Absent]
  /\ db = {}
  /\ topNjson = [d \in Dates |-> Absent]
  /\ topNcsv = [d \in Dates |-> Absent]
  /\ feedmd = [d \in Dates |-> Absent]
  /\ watchjson = [d \in Dates |-> Absent]
  /\ watchcsv = [d \in Dates |-> Absent]
  /\ ret = [d \in Dates |-> NoReturn]
  /\ last = Op("init", 1, 0, FALSE, TRUE)
  /\ exit = 0
  /\ ops = 0

Init ==
  /\ PipelineInit
  /\ probe = NoProbe
  /\ store = NoStore
  /\ writer = NoWrite
  /\ twice = NoRun
  /\ call = NoCall

\* The clock advances.
Tick ==
  /\ now < MaxTime
  /\ ops < MaxOps
  /\ now' = now + 1
  /\ ops' = ops + 1
  /\ UNCHANGED <<policy, raw, parquet, db, topNjson, topNcsv, feedmd, watchjson,
                 watchcsv, ret, last, exit, aux>>

RunDates == {DateOf(t) : t \in StartTime..MaxTime}

\* The orders in which glob can yield the raw files of a date.
GlobOrdersFor(d, date) ==
  IF \E e \in Ecosystems : d.raw[date][e] = <<>> THEN {<<"pypi", "npm">>}
  ELSE GlobOrders

\* The registry's behaviour for each probed candidate; unused when offline.
BehavioursFor(offline, all_candidates) ==
  IF offline THEN {[i \in DOMAIN all_candidates |-> [head |-> "exc", get |-> "exc"]]}
  ELSE [DOMAIN all_candidates -> PipelineBehaviours]

\* radar fetch --ecosystems ... --date ...
Fetch ==
  /\ ops < MaxOps
  /\ \E date \in RunDates, ecosystems \in (SUBSET Ecosystems) \ {{}},
        out \in FetchInputs :
       /\ SetDisk(fetch_packages(Disk, ecosystems, date, out).disk)
       /\ last' = Op("fetch", date, 0, FALSE, TRUE)
  /\ ops' = ops + 1
  /\ UNCHANGED <<now, policy, ret, exit, aux>>

\* What score_candidates leaves: the disk it wrote and the lists it returned.
ScoreReturns(date, s) ==
  /\ SetDisk(s.disk)
  /\ ret' = [ret EXCEPT ![date] = Returned(s)]
  /\ last' = Op("score", date, 0, FALSE, ~s.raised)

\* radar score --date ...
Score ==
  /\ ops < MaxOps
  /\ \E date \in RunDates, offline \in BOOLEAN :
       \E globOrder \in GlobOrdersFor(Disk, date) :
       \E behs \in BehavioursFor(offline, LoadRaw(Disk, date, globOrder)) :
         ScoreReturns(date, score_candidates(Disk, date, offline, globOrder, behs, now,
                                           policy.strict))
  /\ ops' = ops + 1
  /\ UNCHANGED <<now, policy, exit, aux>>

\* generate_feed(date, top_n, watchlist): the CLI passes no watchlist, a
\* library caller may pass the one score_candidates returned for the date.
Feed ==
  /\ ops < MaxOps
  /\ \E date \in RunDates, top_n \in 1..MaxTopN :
       \E watchlist \in {<<>>, ret[date].watchlist},
          df \in get_scored_candidates(db, date) :
         /\ SetDisk(generate_feed(Disk, date, top_n, watchlist, df, policy))
         /\ last' = Op("feed", date, top_n, df # <<>>, TRUE)
  /\ ops' = ops + 1
  /\ UNCHANGED <<now, policy, ret, exit, aux>>

\* What the registries answer for each package during one run.
RegistriesFor(offline) ==
  IF offline THEN {[c \in Universe |-> [head |-> "exc", get |-> "exc"]]}
  ELSE [Universe -> PipelineBehaviours]

\* run-all after score_candidates returned s (or raised): the feed step and
\* the exit status.
RunAllFeed(date, top_n, s) ==
  /\ ret' = [ret EXCEPT ![date] = Returned(s)]
  /\ IF s.raised
     THEN /\ SetDisk(s.disk)
          /\ exit' = 1
          /\ last' = Op("run_all", date, top_n, FALSE, FALSE)
     ELSE \E df \in get_scored_candidates(s.disk.db, date) :
            /\ SetDisk(generate_feed(s.disk, date, top_n, <<>>, df, policy))
            /\ exit' = 0
            /\ last' = Op("run_all", date, top_n, df # <<>>, TRUE)

\* run-all from the score step on, the raw files read in the order globOrder.
RunAllScore(date, offline, top_n, reg, globOrder, d, all_candidates) ==
  RunAllFeed(date, top_n,
             score_candidates(d, date, offline, globOrder,
                              [i \in DOMAIN all_candidates |-> reg[all_candidates[i]]],
                              now, policy.strict))

\* run-all after fetch_packages returned f.
RunAllFetched(date, offline, top_n, reg, f) ==
  IF f.candidates = <<>>
  THEN /\ SetDisk(f.disk)
       /\ exit' = 1   \* typer.Exit(code=0) is an Exception: caught, re-raised as 1
       /\ ret' = ret
       /\ last' = Op("run_all", date, top_n, FALSE, FALSE)
  ELSE \E globOrder \in GlobOrdersFor(f.disk, date) :
         RunAllScore(date, offline, top_n, reg, globOrder, f.disk,
                     LoadRaw(f.disk, date, globOrder))

\* The body of run-all after the date and the offline switch are read:
\* fetch, score, feed, with the exit status.
RunAllGiven(date, offline, out, top_n, reg) ==
  RunAllFetched(date, offline, top_n, reg, fetch_packages(Disk, Ecosystems, date, out))

\* radar run-all: fetch, score, feed for today's date.
RunAll ==
  /\ ops < MaxOps
  /\ \E offline \in BOOLEAN, out \in FetchInputs :
       \E reg \in RegistriesFor(offline) :
         RunAllGiven(DateOf(now), offline, out, MaxTopN, reg)
  /\ ops' = ops + 1
  /\ UNCHANGED <<now, policy, aux>>

Next == Tick \/ Fetch \/ Score \/ Feed \/ RunAll

Spec == Init /\ [][Next]_vars

\* ================================================= properties of the pipeline
\* The latest operation ended in a generate_feed that wrote the feed of its date.
FeedJustWritten == last.op \in {"feed", "run_all"} /\ last.fed

KeysOf(s) == {KeyOf(s[i]) : i \in DOMAIN s}

\* C1: under strict mode, once generate_feed has run for a date, no package is
\* both in that date's feed and in that date's watchlist (the one the latest
\* score_candidates returned, or the one persisted in watchlist.json).
C1_WatchlistDisjointFromFeed ==
  (policy.strict /\ FeedJustWritten /\ ret[last.date].valid) =>
     KeysOf(topNjson[last.date].data)
       \cap (KeysOf(ret[last.date].watchlist) \cup KeysOf(watchjson[last.date].data))
     = {}

CountIn(s, P(_)) == Cardinality({i \in DOMAIN s : P(s[i])})

\* How score_candidates must treat one candidate, given its probe result.
HandledAsGated(h) ==
  IF policy.strict /\ ~h.probe.exists
  THEN /\ h.kind = "watch"
       /\ KeyOf(h.entry) = KeyOf(h.candidate)
       /\ h.entry.not_found_reason = h.probe.reason
       /\ h.entry.not_found_reason # "ok"
  ELSE /\ h.kind = "scored"
       /\ h.entry.candidate = h.candidate
       /\ h.entry.breakdown.exists_in_registry = h.probe.exists
       /\ h.entry.breakdown.not_found_reason =
            (IF h.probe.exists THEN None ELSE h.probe.reason)

\* C2: score_candidates handles every parsed candidate exactly once: under
\* strict mode with a failed probe it yields one watchlist entry carrying the
\* probe's reason (never "ok") and no scored candidate; otherwise it yields one
\* scored candidate whose breakdown carries the probe's outcome; the scored
\* and watchlist entries together are as many as the parsed candidates.
C2_EachCandidateHandledOnce ==
  \A D \in Dates :
    ret[D].valid =>
      /\ Len(ret[D].handled) = ret[D].parsed
      /\ \A i \in DOMAIN ret[D].handled : HandledAsGated(ret[D].handled[i])
      /\ Len(ret[D].scored) + Len(ret[D].watchlist) = ret[D].parsed
      /\ \A c \in Universe :
           /\ CountIn(ret[D].scored, LAMBDA x : x.candidate = c)
                = CountIn(ret[D].handled,
                          LAMBDA h : h.candidate = c /\ ~(policy.strict /\ ~h.probe.exists))
           /\ CountIn(ret[D].watchlist, LAMBDA w : KeyOf(w) = KeyOf(c))
                = CountIn(ret[D].handled,
                          LAMBDA h : h.candidate = c /\ policy.strict /\ ~h.probe.exists)

\* A strict-mode score_candidates call returned both a watchlist entry and a
\* scored candidate.
C2_Witness ==
  \E D \in Dates :
    /\ policy.strict /\ ret[D].valid
    /\ ret[D].watchlist # <<>> /\ ret[D].scored # <<>>
    /\ \E i \in DOMAIN ret[D].handled : ~ret[D].handled[i].probe.exists

\* C3: after a complete run-all under strict mode, every fetched candidate the
\* registry did not confirm is recorded in the date's watchlist.json with its
\* reason and is absent from the date's feed.
C3_NotFoundLandsInWatchlistFile ==
  (policy.strict /\ last.op = "run_all" /\ last.complete /\ exit = 0) =>
     \A i \in DOMAIN ret[last.date].handled :
        LET h == ret[last.date].handled[i]
        IN  ~h.probe.exists =>
              /\ watchjson[last.date].exists
              /\ \E j \in DOMAIN watchjson[last.date].data :
                   /\ KeyOf(watchjson[last.date].data[j]) = KeyOf(h.candidate)
                   /\ watchjson[last.date].data[j].not_found_reason = h.probe.reason
              /\ KeyOf(h.candidate) \notin KeysOf(topNjson[last.date].data)

\* Lexicographic rank of the strings used as ecosystem and name.
StringRank(str) ==
  CASE str = "a" -> 1 [] str = "b" -> 2 [] str = "npm" -> 3 [] str = "pypi" -> 4
    [] OTHER -> 5

\* "ecosystem:name" ascending.
KeyBefore(x, y) ==
  \/ StringRank(x.ecosystem) < StringRank(y.ecosystem)
  \/ x.ecosystem = y.ecosystem /\ StringRank(x.name) < StringRank(y.name)

\* x ranks strictly before y: total descending, then newness descending, then
\* ecosystem:name ascending.
RanksBefore(x, y) ==
  \/ x.score > y.score
  \/ x.score = y.score /\ x.breakdown["newness"] > y.breakdown["newness"]
  \/ x.score = y.score /\ x.breakdown["newness"] = y.breakdown["newness"]
       /\ KeyBefore(x, y)

Eligible(D) == {r \in RowsOf(db, D) : r.score >= policy.min_score}

\* C5: the feed generate_feed wrote for date D with limit top_n holds only
\* scored rows of D with total >= min_score, at most top_n of them, and no
\* omitted eligible row has a strictly higher total than an included one.
C5_FeedIsTopOfThreshold ==
  FeedJustWritten =>
    LET feed == topNjson[last.date].data
    IN  /\ topNjson[last.date].exists
        /\ Len(feed) <= last.top_n
        /\ \A i \in DOMAIN feed :
             /\ feed[i].score >= policy.min_score
             /\ \E r \in RowsOf(db, last.date) :
                  KeyOf(r) = KeyOf(feed[i]) /\ r.score = feed[i].score
        /\ \A r \in Eligible(last.date) :
             KeyOf(r) \notin KeysOf(feed) =>
               \A i \in DOMAIN feed : r.score <= feed[i].score
        /\ Len(feed) = Min(last.top_n, Cardinality(Eligible(last.date)))

\* A feed was written with a row cut by the limit and a row cut by the
\* threshold.
C5_Witness ==
  /\ FeedJustWritten
  /\ Len(topNjson[last.date].data) = last.top_n
  /\ \E r \in Eligible(last.date) : KeyOf(r) \notin KeysOf(topNjson[last.date].data)

\* A feed was written while a row of the date was below the threshold.
C5_ThresholdCase ==
  /\ FeedJustWritten
  /\ \E r \in RowsOf(db, last.date) : r.score < policy.min_score

\* C9: what GET /feed/{date} reads back from topN.json is what the scorer
\* produced for the ranked rows: each item has the full twelve subscores and
\* the ordered reasons of its scored candidate.
C9_FeedRoundTrip ==
  \A D \in Dates :
    get_feed(Disk, D).status = 200 =>
      \A i \in DOMAIN get_feed(Disk, D).content :
         LET item == get_feed(Disk, D).content[i]
         IN  \E r \in RowsOf(db, D) :
               /\ KeyOf(r) = KeyOf(item)
               /\ item.score = r.score
               /\ DOMAIN item.breakdown = SubscoreNames
               /\ \A s \in SubscoreNames : item.breakdown[s] = r.sub[s]
               /\ item.reasons = r.reasons.json

\* ====================================================== the prober alone
\* Every call of exists_in_registry: offline or not, a known or an unknown
\* ecosystem, and every way the registry can treat the HEAD and the GET.
ProbeInputs ==
  [offline : BOOLEAN, ecosystem : {"npm", "pypi", "cargo"},
   beh : [head : Responses, get : Responses],
   done : {FALSE}, result : {Probe(FALSE, "error", <<>>)}]

InitProbe ==
  /\ PipelineInit
  /\ probe \in ProbeInputs
  /\ store = NoStore
  /\ writer = NoWrite
  /\ twice = NoRun
  /\ call = NoCall

ProbeCall ==
  /\ ~probe.done
  /\ probe' = [probe EXCEPT !.done = TRUE,
                            !.result = exists_in_registry(probe.offline,
                                                          probe.ecosystem, probe.beh)]
  /\ UNCHANGED <<now, policy, raw, parquet, db, topNjson, topNcsv, feedmd,
                 watchjson, watchcsv, ret, last, exit, ops, store, writer, twice, call>>

NextProbe == ProbeCall

SpecProbe == InitProbe /\ [][NextProbe]_vars

\* What the registry answered to the last request the call issued.
Answered(p) ==
  IF p.result.calls = <<>> THEN "none"
  ELSE IF p.result.calls[Len(p.result.calls)] = "HEAD" THEN p.beh.head
       ELSE p.beh.get

\* C10: exists_in_registry never raises, whatever the registry does, and
\* returns (true, "ok") exactly when the registry answered 200, (false, "404")
\* when it answered 404, (false, "timeout") on a timeout, (false, "offline") in
\* offline mode (without contacting the registry), (false, "error") otherwise.
C10_ProbeMapping ==
  probe.done =>
    /\ ~probe.result.raised
    /\ probe.offline => probe.result.calls = <<>>
    /\ <<probe.result.exists, probe.result.reason>> =
         (IF probe.offline THEN <<FALSE, "offline">>
          ELSE IF Answered(probe) = "200" THEN <<TRUE, "ok">>
          ELSE IF Answered(probe) = "404" THEN <<FALSE, "404">>
          ELSE IF Answered(probe) = "timeout" THEN <<FALSE, "timeout">>
          ELSE <<FALSE, "error">>)
    /\ probe.result.exists <=> (~probe.offline /\ Answered(probe) = "200")

\* An online npm probe whose HEAD was refused and whose GET answered 404.
C10_Witness ==
  /\ probe.done /\ ~probe.offline /\ probe.ecosystem = "npm"
  /\ probe.beh.head = "405" /\ probe.beh.get = "404"
  /\ probe.result.calls = <<"HEAD", "GET">>
  /\ probe.result.reason = "404"

\* ===================================================== the storage alone
\* C21: for npm the probe issues a GET only after a HEAD that was answered
\* with a status other than 200 and 404, issues at most one GET, and decides
\* from the HEAD alone, without a GET, when the HEAD status is 200 or 404.
C21_NpmGetOnlyAfterRejectedHead ==
  (probe.done /\ ~probe.offline /\ probe.ecosystem = "npm") =>
     LET calls == probe.result.calls
         gets == {i \in DOMAIN calls : calls[i] = "GET"}
     IN  /\ Cardinality(gets) <= 1
         /\ \A i \in gets :
              /\ i > 1 /\ calls[i - 1] = "HEAD"
              /\ probe.beh.head \notin {"200", "404", "timeout", "exc"}
         /\ probe.beh.head \in {"200", "404"} =>
              /\ calls = <<"HEAD">>
              /\ probe.result = StatusDecision(probe.beh.head, <<"HEAD">>)

\* An npm probe whose HEAD was rejected with 405 and whose GET found the
\* package.
C21_Witness ==
  /\ probe.done /\ ~probe.offline /\ probe.ecosystem = "npm"
  /\ probe.beh.head = "405" /\ probe.beh.get = "200"
  /\ probe.result.calls = <<"HEAD", "GET">>
  /\ probe.result.exists

\* An npm probe decided by a HEAD answered 404, no GET issued.
C21_WitnessHeadOnly ==
  /\ probe.done /\ ~probe.offline /\ probe.ecosystem = "npm"
  /\ probe.beh.head = "404" /\ probe.result.calls = <<"HEAD">>

\* Scored candidates a caller may hand to insert_scored_candidates: the
\* packages of Universe scored at the start, and one of them scored again
\* later (another total for the same key).
StoreCandidates ==
  {HandleOne(c, Probe(TRUE, "ok", <<"GET">>), FALSE, StartTime, FALSE).entry :
     c \in Universe}
    \cup {HandleOne(Candidate("pypi", "a"), Probe(TRUE, "ok", <<"GET">>), FALSE,
                    StartTime + 1, FALSE).entry}

InitStore ==
  /\ PipelineInit
  /\ ~policy.strict /\ policy.min_score = 0
  /\ probe = NoProbe
  /\ store = NoStore
  /\ writer = NoWrite
  /\ twice = NoRun
  /\ call = NoCall

\* storage.insert_scored_candidates(candidates, date_str) as one call.
InsertCall ==
  /\ ops < MaxOps
  /\ \E candidates \in SeqsOver(StoreCandidates, MaxLen), date \in Dates :
       LET r == insert_scored_candidates(db, candidates, date)
       IN  /\ db' = r.db
           /\ store' = [called |-> TRUE, before |-> db, candidates |-> candidates,
                        date |-> date, raised |-> r.raised]
  /\ ops' = ops + 1
  /\ UNCHANGED <<now, policy, raw, parquet, topNjson, topNcsv, feedmd, watchjson,
                 watchcsv, ret, last, exit, probe, writer, twice, call>>

NextStore == InsertCall

SpecStore == InitStore /\ [][NextStore]_vars

\* C6: after insert_scored_candidates(C, D) the rows of date D are exactly
\* the rows of C, whatever the list (empty, any length), the rows of every
\* other date are as before, and repeating the call changes nothing.
C6_InsertReplacesDate ==
  store.called =>
    /\ ~store.raised
    /\ RowsOf(db, store.date) =
         {Row(store.candidates[i], store.date) : i \in DOMAIN store.candidates}
    /\ db \ RowsOf(db, store.date) = store.before \ RowsOf(store.before, store.date)
    /\ insert_scored_candidates(db, store.candidates, store.date).db = db

\* The same statement for the calls that pass a non-empty list without a
\* repeated key: the part of C6 the code keeps.
C6_NonEmptyDistinctReplaces ==
  (store.called /\ store.candidates # <<>>
     /\ ~DuplicateKey([i \in DOMAIN store.candidates |->
                         Row(store.candidates[i], store.date)])) =>
    /\ ~store.raised
    /\ RowsOf(db, store.date) =
         {Row(store.candidates[i], store.date) : i \in DOMAIN store.candidates}
    /\ db \ RowsOf(db, store.date) = store.before \ RowsOf(store.before, store.date)
    /\ insert_scored_candidates(db, store.candidates, store.date).db = db

\* An empty list was inserted for a date that had rows.
C6_EmptyOverRows ==
  /\ store.called /\ store.candidates = <<>>
  /\ RowsOf(store.before, store.date) # {}

\* ============================================ the writes, statement by statement
\* insert_scored_candidates issues DELETE and INSERT as two statements on a
\* connection without an explicit transaction; generate_feed writes topN.json,
\* topN.csv and feed.md one after the other.  Between two steps of a writer
\* any other process may read the table and the files.
InitAtomic ==
  /\ PipelineInit
  /\ ~policy.strict
  /\ probe = NoProbe
  /\ store = NoStore
  /\ writer = NoWrite
  /\ twice = NoRun
  /\ call = NoCall

FeedFiles(d, date) == <<d.topNjson[date], d.topNcsv[date], d.feedmd[date]>>

\* insert_scored_candidates, first statement: DELETE ... WHERE date = ?
\* (an empty list returns before any statement).
InsertDelete ==
  /\ writer.pc = "idle"
  /\ ops < MaxOps
  /\ \E candidates \in SeqsOver(StoreCandidates, MaxLen) \ {<<>>}, date \in RunDates :
       LET records == [i \in DOMAIN candidates |-> Row(candidates[i], date)]
       IN  /\ db' = db \ RowsOf(db, date)
           /\ writer' = [pc |-> "deleted", kind |-> "insert", date |-> date,
                         failed |-> FALSE, old |-> RowsOf(db, date),
                         new |-> Range(records), records |-> records]
  /\ ops' = ops + 1
  /\ UNCHANGED <<now, policy, raw, parquet, topNjson, topNcsv, feedmd, watchjson,
                 watchcsv, ret, last, exit, probe, store, twice, call>>

\* insert_scored_candidates, second statement: INSERT ... SELECT * FROM df,
\* which fails as a whole on a repeated primary key.
InsertRows ==
  /\ writer.pc = "deleted"
  /\ IF DuplicateKey(writer.records)
     THEN /\ db' = db
          /\ writer' = [writer EXCEPT !.pc = "idle", !.failed = TRUE]
     ELSE /\ db' = db \cup Range(writer.records)
          /\ writer' = [writer EXCEPT !.pc = "idle"]
  /\ UNCHANGED <<now, policy, raw, parquet, topNjson, topNcsv, feedmd, watchjson,
                 watchcsv, ret, last, exit, ops, probe, store, twice, call>>

\* generate_feed up to save_json(feed_data, topN.json).
FeedJson ==
  /\ writer.pc = "idle"
  /\ ops < MaxOps
  /\ \E date \in RunDates, top_n \in 1..MaxTopN :
       \E df \in get_scored_candidates(db, date) :
         LET target == generate_feed(Disk, date, top_n, <<>>, df, policy)
         IN  /\ df # <<>>
             /\ topNjson' = target.topNjson
             /\ writer' = [pc |-> "json", kind |-> "feed", date |-> date,
                           failed |-> FALSE, old |-> FeedFiles(Disk, date),
                           new |-> FeedFiles(target, date), records |-> <<>>]
  /\ ops' = ops + 1
  /\ UNCHANGED <<now, policy, raw, parquet, db, topNcsv, feedmd, watchjson,
                 watchcsv, ret, last, exit, probe, store, twice, call>>

\* generate_feed: _save_feed_csv(feed_data, topN.csv).
FeedCsv ==
  /\ writer.pc = "json"
  /\ topNcsv' = [topNcsv EXCEPT ![writer.date] = writer.new[2]]
  /\ writer' = [writer EXCEPT !.pc = "csv"]
  /\ UNCHANGED <<now, policy, raw, parquet, db, topNjson, feedmd, watchjson,
                 watchcsv, ret, last, exit, ops, probe, store, twice, call>>

\* generate_feed: _render_markdown_feed(feed_data, date_str, feed.md).
FeedMd ==
  /\ writer.pc = "csv"
  /\ feedmd' = [feedmd EXCEPT ![writer.date] = writer.new[3]]
  /\ writer' = [writer EXCEPT !.pc = "idle"]
  /\ UNCHANGED <<now, policy, raw, parquet, db, topNjson, topNcsv, watchjson,
                 watchcsv, ret, last, exit, ops, probe, store, twice, call>>

NextAtomic == InsertDelete \/ InsertRows \/ FeedJson \/ FeedCsv \/ FeedMd

SpecAtomic == InitAtomic /\ [][NextAtomic]_vars

\* What a reader of the date under write finds at this moment.
Observed ==
  IF writer.kind = "insert" THEN RowsOf(db, writer.date)
  ELSE FeedFiles(Disk, writer.date)

\* C7: a reader of date D, at any moment of a write for D, finds the complete
\* previous state or the complete new state, never rows of D deleted and not
\* yet re-inserted nor a partly written feed; a write that fails part-way
\* leaves the previous state in place.
C7_WritesAllOrNothing ==
  writer.kind # "none" =>
    /\ Observed = writer.old \/ Observed = writer.new
    /\ writer.failed => Observed = writer.old

\* The stepwise writers end where the one-call operators end.
StepwiseAgrees ==
  (writer.kind # "none" /\ writer.pc = "idle" /\ ~writer.failed) =>
     Observed = writer.new

\* ================================================== the pipeline run twice
InitTwice ==
  /\ PipelineInit
  /\ probe = NoProbe
  /\ store = NoStore
  /\ writer = NoWrite
  /\ twice = NoRun
  /\ call = NoCall

\* The first run-all of the day, against registries answering `reg` and
\* sources listing `out`.
FirstRun ==
  /\ twice.stage = 0
  /\ \E offline \in BOOLEAN, out \in FetchInputs :
       \E reg \in RegistriesFor(offline) :
         /\ RunAllGiven(DateOf(now), offline, out, MaxTopN, reg)
         /\ twice' = [stage |-> 1, offline |-> offline, out |-> out, reg |-> reg,
                      after |-> <<>>, exit |-> 0]
  /\ UNCHANGED <<now, policy, ops, probe, store, writer, call>>

\* Time passes between the two runs.
TickBetween ==
  /\ twice.stage = 1
  /\ now < MaxTime
  /\ now' = now + 1
  /\ UNCHANGED <<policy, raw, parquet, db, topNjson, topNcsv, feedmd, watchjson,
                 watchcsv, ret, last, exit, ops, aux>>

\* The sources answer alike.  Online, PyPISource collects the names of the
\* RSS feeds in a set and returns list(names)[:limit], whose order is the
\* set's iteration order of that process; the seed data (offline) and the npm
\* source list in the order of their input.
SameListing(offline, out1, out2) ==
  /\ \A e \in Ecosystems : out1[e].raised = out2[e].raised
  /\ out1["npm"].list = out2["npm"].list
  /\ IF offline THEN out1["pypi"].list = out2["pypi"].list
     ELSE Range(out1["pypi"].list) = Range(out2["pypi"].list)

Strip(rec, field) == [f \in DOMAIN rec \ {field} |-> rec[f]]

\* The persisted outputs of the pipeline, timestamps removed.
Outputs ==
  [raw |-> raw,
   parquet |-> parquet,
   db |-> {Strip(r, "scored_at") : r \in db},
   topNjson |-> [D \in Dates |->
                   [exists |-> topNjson[D].exists,
                    data |-> [i \in DOMAIN topNjson[D].data |->
                                Strip(topNjson[D].data[i], "scored_at")]]],
   topNcsv |-> topNcsv,
   feedmd |-> feedmd,
   watchjson |-> [D \in Dates |->
                    [exists |-> watchjson[D].exists,
                     data |-> [i \in DOMAIN watchjson[D].data |->
                                 Strip(watchjson[D].data[i], "first_seen_at")]]]]

\* run-all again for the same date, the registries and sources answering as
\* in the first run.
Rerun ==
  /\ twice.stage = 1
  /\ \E out \in FetchInputs :
       /\ SameListing(twice.offline, twice.out, out)
       /\ RunAllGiven(DateOf(now), twice.offline, out, MaxTopN, twice.reg)
  /\ twice' = [twice EXCEPT !.stage = 2, !.after = Outputs, !.exit = exit]
  /\ UNCHANGED <<now, policy, ops, probe, store, writer, call>>

NextTwice == FirstRun \/ TickBetween \/ Rerun

SpecTwice == InitTwice /\ [][NextTwice]_vars

\* C8: running the full pipeline twice for one date, the registries answering
\* alike, leaves the persisted outputs (timestamps aside) and the exit status
\* as the first run left them.
C8_RunTwiceIsRunOnce ==
  twice.stage = 2 => (Outputs = twice.after /\ exit = twice.exit)

\* ======================================================= the scorer alone
\* The candidates handed to the scorer: of either ecosystem, with or without
\* a repository URL.
ScoreCandidates ==
  {[Candidate(e, "a") EXCEPT !.repository = r] :
     e \in Ecosystems, r \in {None, "https://github.com/o/a"}}

\* raw_metadata and list hits, each departing from PlainFacts in one respect,
\* and one departing in all.
ScoreFacts ==
  {PlainFacts,
   [PlainFacts EXCEPT !.prefix = TRUE, !.suffix = TRUE],
   [PlainFacts EXCEPT !.distance = 1],
   [PlainFacts EXCEPT !.hallucination = TRUE],
   [PlainFacts EXCEPT !.scripts = ScriptsTable(1, TRUE, 0)],
   [PlainFacts EXCEPT !.scripts = ScriptsTable(1, TRUE, 4)],
   [PlainFacts EXCEPT !.artifacts = [urls |-> TRUE, fails |-> TRUE, risk |-> 0]],
   [PlainFacts EXCEPT !.artifacts = [urls |-> TRUE, fails |-> FALSE, risk |-> 150]],
   [PlainFacts EXCEPT !.has_docs = TRUE],
   [PlainFacts EXCEPT !.provenance = 20],
   [PlainFacts EXCEPT !.flip = 70],
   Facts(TRUE, FALSE, 1, TRUE, ScriptsTable(1, TRUE, 1),
         [urls |-> TRUE, fails |-> FALSE, risk |-> 50], TRUE, 0, 70)}

\* policy.weights: the fixture's, none at all, negative ones, and ones that
\* sum far above 1.
WeightSets ==
  {Weights,
   [s \in {} |-> 0],
   [name_suspicion |-> -50, newness |-> -25, docs_absence |-> 10],
   [s \in SubscoreNames |-> 100]}

ScoreInputs ==
  [c : ScoreCandidates, offline : BOOLEAN,
   lookups : [enable_github : BOOLEAN, enable_npm_downloads : BOOLEAN],
   facts : ScoreFacts, weights : WeightSets,
   beh : {[head |-> "200", get |-> "200"], [head |-> "405", get |-> "timeout"]}]

InitScore ==
  /\ PipelineInit
  /\ policy.strict /\ policy.min_score = 0
  /\ probe = NoProbe
  /\ store = NoStore
  /\ writer = NoWrite
  /\ twice = NoRun
  /\ call \in {[fn |-> "score", done |-> FALSE, in |-> i] : i \in ScoreInputs}

\* The probe of the candidate, PackageScorer.score and, when it returns,
\* compute_weighted_score.
ScoreCall ==
  /\ call.fn = "score" /\ ~call.done
  /\ LET i == call.in
         b == score(i.c, now, i.offline, i.lookups, i.facts)
     IN  call' = [fn |-> "score", done |-> TRUE, in |-> i,
                  probe |-> exists_in_registry(i.offline, i.c.ecosystem, i.beh),
                  raised |-> b.raised, sub |-> b.sub, reasons |-> b.reasons,
                  calls |-> b.calls,
                  total |-> IF b.raised THEN 0
                            ELSE compute_weighted_score(b.sub, i.weights)]
  /\ UNCHANGED <<now, policy, raw, parquet, db, topNjson, topNcsv, feedmd,
                 watchjson, watchcsv, ret, last, exit, ops, probe, store, writer,
                 twice>>

NextScore == ScoreCall

SpecScore == InitScore /\ [][NextScore]_vars

ScoreDone == call.fn = "score" /\ call.done

EnrichmentSubscores ==
  {"content_risk", "provenance_risk", "repo_asymmetry", "download_anomaly",
   "version_flip"}

\* C11: with the offline switch set, probing and scoring a candidate issue no
\* HTTP call, the scorer returns, and content_risk, provenance_risk,
\* repo_asymmetry, download_anomaly and version_flip are all 0.
C11_OfflineNeutral ==
  (ScoreDone /\ call.in.offline) =>
     /\ call.probe.calls = <<>>
     /\ call.calls = <<>>
     /\ ~call.raised
     /\ \A s \in EnrichmentSubscores : call.sub[s] = 0

\* An npm package with a repository, an auto-run script matching dangerous
\* patterns, a version flip and every lookup enabled was scored offline.
C11_Witness ==
  /\ ScoreDone /\ call.in.offline
  /\ call.in.c.ecosystem = "npm" /\ call.in.c.repository # None
  /\ call.in.facts.scripts.hits > 0 /\ call.in.facts.flip > 0
  /\ call.in.lookups.enable_github /\ call.in.lookups.enable_npm_downloads
  /\ call.probe.reason = "offline"

\* An offline call to the scorer for a PyPI package whose metadata lists
\* release files.
C11_WitnessArtifacts ==
  /\ ScoreDone /\ call.in.offline
  /\ call.in.c.ecosystem = "pypi" /\ call.in.facts.artifacts.urls

\* C13: whatever the candidate and the weights (missing, negative, summing
\* above 1), every subscore score produces lies in [0, 1] and
\* compute_weighted_score is the weighted sum, a missing weight counting 0,
\* cut to [0, 1].
C13_ScoreRange ==
  (ScoreDone /\ ~call.raised) =>
     /\ DOMAIN call.sub = SubscoreNames
     /\ \A s \in SubscoreNames : call.sub[s] \in 0..100
     /\ LET w == call.in.weights
            sum == SumOver(SubscoreNames,
                           [s \in SubscoreNames |->
                              call.sub[s] * (IF s \in DOMAIN w THEN w[s] ELSE 0)])
                   \div 100
        IN  call.total = (IF sum < 0 THEN 0 ELSE IF sum > 100 THEN 100 ELSE sum)

\* A breakdown whose weighted sum is above 1 was cut to 1.
C13_Witness ==
  /\ ScoreDone /\ ~call.raised
  /\ call.in.weights = [s \in SubscoreNames |-> 100]
  /\ call.total = 100
  /\ \E s, u \in SubscoreNames : s # u /\ call.sub[s] = 100 /\ call.sub[u] = 100

\* A breakdown whose weighted sum is below 0 was cut to 0.
C13_WitnessNegative ==
  /\ ScoreDone /\ ~call.raised
  /\ "name_suspicion" \in DOMAIN call.in.weights
  /\ call.in.weights["name_suspicion"] < 0
  /\ call.sub["name_suspicion"] > 0
  /\ call.total = 0

\* C14: score returns a breakdown for every candidate; no exception leaves it.
C14_ScoreNeverRaises ==
  ScoreDone =>
     /\ ~call.raised
     /\ DOMAIN call.sub = SubscoreNames

\* A disabled lookup and a failed artifact analysis do become neutral
\* subscores.
C14_CaughtFailuresNeutral ==
  (ScoreDone /\ ~call.in.offline /\ ~call.raised) =>
     /\ (call.in.c.ecosystem = "pypi" /\ call.in.facts.artifacts.urls
         /\ call.in.facts.artifacts.fails) => call.sub["content_risk"] = 0
     /\ ~call.in.lookups.enable_github =>
          (call.sub["provenance_risk"] = 0 /\ call.sub["repo_asymmetry"] = 0)
     /\ ~call.in.lookups.enable_npm_downloads => call.sub["download_anomaly"] = 0

\* ===================================================== lint_scripts alone
InitLint ==
  /\ PipelineInit
  /\ policy.strict /\ policy.min_score = 0
  /\ probe = NoProbe
  /\ store = NoStore
  /\ writer = NoWrite
  /\ twice = NoRun
  /\ call \in {[fn |-> "lint_scripts", done |-> FALSE, in |-> s] : s \in ScriptsTables}

LintCall ==
  /\ call.fn = "lint_scripts" /\ ~call.done
  /\ call' = [fn |-> "lint_scripts", done |-> TRUE, in |-> call.in,
              out |-> lint_scripts(call.in)]
  /\ UNCHANGED <<now, policy, raw, parquet, db, topNjson, topNcsv, feedmd,
                 watchjson, watchcsv, ret, last, exit, ops, probe, store, writer,
                 twice>>

NextLint == LintCall

SpecLint == InitLint /\ [][NextLint]_vars

LintDone == call.fn = "lint_scripts" /\ call.done

\* C20: for a scripts table with an auto-run script and at least one dangerous
\* pattern match, lint_scripts returns a risk above 0.5 and at most 1.
C20_AutoRunDangerAboveHalf ==
  (LintDone /\ call.in.auto_run /\ call.in.hits > 0) =>
     (call.out.risk * 2 > LintUnit /\ call.out.risk <= LintUnit)

\* The risk lint_scripts returns is never above 1, and with an auto-run script
\* and at least four matches it is above 0.5.
C20_UpperBoundAndFourHits ==
  LintDone =>
     /\ call.out.risk \in 0..LintUnit
     /\ (call.in.auto_run /\ call.in.hits >= 4) => call.out.risk * 2 > LintUnit

\* ================================================= run-all and its exit status
InitRun ==
  /\ PipelineInit
  /\ probe = NoProbe
  /\ store = NoStore
  /\ writer = NoWrite
  /\ twice = NoRun
  /\ call = [fn |-> "run_all", done |-> FALSE]

\* The step during which Ctrl-C arrives, if it does.
Interrupts == {"never", "fetch", "score", "feed"}

\* KeyboardInterrupt caught by run_all: what the steps before the interrupted
\* one persisted stays, and the status is 130.
Interrupted(d, date, top_n) ==
  /\ SetDisk(d)
  /\ exit' = 130
  /\ ret' = ret
  /\ last' = Op("run_all", date, top_n, FALSE, FALSE)

\* radar run-all as the shell sees it: the whole command, a Ctrl-C included.
RunAllCli ==
  /\ call.fn = "run_all" /\ ~call.done
  /\ \E offline \in BOOLEAN, out \in FetchInputs, stop \in Interrupts :
       \E reg \in RegistriesFor(offline) :
         LET date == DateOf(now)
             f == fetch_packages(Disk, Ecosystems, date, out)
             all_candidates == LoadRaw(f.disk, date, <<"pypi", "npm">>)
             s == score_candidates(f.disk, date, offline, <<"pypi", "npm">>,
                                   [i \in DOMAIN all_candidates |-> reg[all_candidates[i]]],
                                   now, policy.strict)
         IN  /\ stop = "score" => f.candidates # <<>>
             /\ stop = "feed" => (f.candidates # <<>> /\ ~s.raised)
             /\ CASE stop = "fetch" -> Interrupted(Disk, date, MaxTopN)
                  [] stop = "score" -> Interrupted(f.disk, date, MaxTopN)
                  [] stop = "feed" -> Interrupted(s.disk, date, MaxTopN)
                  [] OTHER -> RunAllGiven(date, offline, out, MaxTopN, reg)
             /\ call' = [fn |-> "run_all", done |-> TRUE, offline |-> offline,
                         fetched |-> Len(f.candidates), interrupted |-> stop # "never"]
  /\ ops' = ops + 1
  /\ UNCHANGED <<now, policy, probe, store, writer, twice>>

NextRun == RunAllCli

SpecRun == InitRun /\ [][NextRun]_vars

RunDone == call.fn = "run_all" /\ call.done

\* C15: run-all ends with status 130 when interrupted; otherwise 0 when the
\* pipeline ran to its end or stopped gracefully (offline and nothing fetched),
\* and 1 on any other failure (online and nothing fetched, an exception).
C15_ExitStatus ==
  RunDone =>
     exit = (IF call.interrupted THEN 130
             ELSE IF last.complete THEN 0
             ELSE IF call.offline /\ call.fetched = 0 THEN 0
             ELSE 1)

\* All of the exit statuses but the graceful stop are as stated.
C15_ExitStatusButGraceful ==
  (RunDone /\ ~(call.offline /\ call.fetched = 0 /\ ~call.interrupted)) =>
     exit = (IF call.interrupted THEN 130 ELSE IF last.complete THEN 0 ELSE 1)

\* The default policy: feed.strict and feed.write_watchlist read True and
\* feed.min_score reads 0.0 when the policy file does not set them.
DefaultPolicy == policy.strict /\ policy.min_score = 0 /\ policy.write_watchlist

\* C12: offline, with seed data, under the default policy, after fetch_packages,
\* score_candidates and generate_feed(D, top_n = N) have run for date D, the
\* files topN.json and feed.md of D exist and the feed holds at most N items.
C12_OfflineRunWritesFeed ==
  (RunDone /\ DefaultPolicy /\ call.offline /\ call.fetched > 0 /\ ~call.interrupted) =>
     /\ topNjson[last.date].exists
     /\ feedmd[last.date].exists
     /\ Len(topNjson[last.date].data) <= last.top_n

\* With strict gating off, the offline run does write the feed files, with at
\* most N items.
C12_NonStrictOfflineRunWritesFeed ==
  (RunDone /\ ~policy.strict /\ call.offline /\ call.fetched > 0 /\ ~call.interrupted) =>
     /\ topNjson[last.date].exists
     /\ feedmd[last.date].exists
     /\ Len(topNjson[last.date].data) <= last.top_n

\* =========================================== the sources and their seed files
\* What the live discovery request of a source ends in: a failure (connection
\* error, bad status, after the retries) or the listed packages.
LiveOutcomes(e) ==
  {[failed |-> TRUE, list |-> <<>>]}
    \cup {[failed |-> FALSE, list |-> l] : l \in {<<>>, <<Candidate(e, "b")>>}}

\* The content of data/samples/{ecosystem}_seed.jsonl, parsed; <<>> when the
\* file is missing or empty.
SeedFiles(e) ==
  {<<>>, <<Candidate(e, "a")>>, <<Candidate(e, "a"), Candidate(e, "b")>>}

\* NpmSource.fetch_recent and PyPISource.fetch_recent: the seed when offline;
\* online, a failed discovery request is caught inside the adapter and the
\* result is the empty list.
fetch_recent(offline, live, seed) ==
  IF offline THEN seed
  ELSE IF live.failed THEN <<>>
  ELSE live.list

\* NPMSource.fetch_recent_packages of the package under
\* phantom-dependency-radar: the failure of the changes feed is caught and
\* the empty list returned.
fetch_recent_packages(live) ==
  IF live.failed THEN [raised |-> FALSE, list |-> <<>>]
  ELSE [raised |-> FALSE, list |-> live.list]

\* PackageSource.fetch_with_fallback: the seed when offline or when
\* fetch_recent_packages raises.
fetch_with_fallback(offline, live, seed) ==
  IF offline THEN seed
  ELSE IF fetch_recent_packages(live).raised THEN seed
  ELSE fetch_recent_packages(live).list

FetchCalls ==
  {[fn |-> "fetch_packages", done |-> FALSE, offline |-> o, live |-> l, seed |-> s] :
     o \in BOOLEAN,
     l \in {f \in [Ecosystems -> UNION {LiveOutcomes(e) : e \in Ecosystems}] :
              \A e \in Ecosystems : f[e] \in LiveOutcomes(e)},
     s \in {f \in [Ecosystems -> UNION {SeedFiles(e) : e \in Ecosystems}] :
              \A e \in Ecosystems : f[e] \in SeedFiles(e)}}

FallbackCalls ==
  {[fn |-> "fetch_with_fallback", done |-> FALSE, offline |-> o, live |-> l,
    seed |-> s] :
     o \in BOOLEAN, l \in LiveOutcomes("npm"), s \in SeedFiles("npm")}

InitFetch ==
  /\ PipelineInit
  /\ policy.strict /\ policy.min_score = 0
  /\ probe = NoProbe
  /\ store = NoStore
  /\ writer = NoWrite
  /\ twice = NoRun
  /\ call \in FetchCalls \cup FallbackCalls

\* fetch_packages(["pypi", "npm"], limit, date) of radar.pipeline.fetch.
FetchCall ==
  /\ call.fn = "fetch_packages" /\ ~call.done
  /\ LET out == [e \in Ecosystems |->
                   [raised |-> FALSE,
                    list |-> fetch_recent(call.offline, call.live[e], call.seed[e])]]
         f == fetch_packages(Disk, Ecosystems, DateOf(now), out)
     IN  /\ SetDisk(f.disk)
         /\ call' = [call EXCEPT !.done = TRUE] @@ [candidates |-> f.candidates]
  /\ last' = Op("fetch", DateOf(now), 0, FALSE, TRUE)
  /\ ops' = ops + 1
  /\ UNCHANGED <<now, policy, ret, exit, probe, store, writer, twice>>

\* NPMSource.fetch_with_fallback(limit).
FallbackCall ==
  /\ call.fn = "fetch_with_fallback" /\ ~call.done
  /\ call' = [call EXCEPT !.done = TRUE]
              @@ [candidates |-> fetch_with_fallback(call.offline, call.live, call.seed)]
  /\ UNCHANGED <<now, policy, raw, parquet, db, topNjson, topNcsv, feedmd,
                 watchjson, watchcsv, ret, last, exit, ops, probe, store, writer,
                 twice>>

NextFetch == FetchCall \/ FallbackCall

SpecFetch == InitFetch /\ [][NextFetch]_vars

OfEcosystem(s, e) == SelectSeq(s, LAMBDA c : c.ecosystem = e)

\* C16: online, when the discovery request of a source fails as a whole, the
\* candidates of that ecosystem are those of its seed file.
C16_FailedFetchFallsBackToSeed ==
  /\ (call.fn = "fetch_packages" /\ call.done /\ ~call.offline) =>
        \A e \in Ecosystems :
           call.live[e].failed => OfEcosystem(call.candidates, e) = call.seed[e]
  /\ (call.fn = "fetch_with_fallback" /\ call.done /\ ~call.offline
      /\ call.live.failed) => call.candidates = call.seed

\* Offline, the candidates are those of the seed files.
C16_OfflineReadsSeed ==
  /\ (call.fn = "fetch_packages" /\ call.done /\ call.offline) =>
        \A e \in Ecosystems : OfEcosystem(call.candidates, e) = call.seed[e]
  /\ (call.fn = "fetch_with_fallback" /\ call.done /\ call.offline) =>
        call.candidates = call.seed

\* ================================================== POST /score and its deadline
MaxWork == 10    \* longest time (seconds) the blocking calls of one request take

\* asyncio.wait_for(_score_with_enrichment(), timeout=8.0)
Deadline == 8

\* The calls of _score_with_enrichment that wait on the network: all of them
\* are synchronous (httpx.Client, urllib), none is awaited.
Blockers == {"registry", "enrichment", "artifact"}

InitApi ==
  /\ PipelineInit
  /\ policy.strict /\ policy.min_score = 0
  /\ probe = NoProbe
  /\ store = NoStore
  /\ writer = NoWrite
  /\ twice = NoRun
  /\ call = [fn |-> "score_package", pc |-> "idle", done |-> FALSE]

\* The request arrives: wait_for wraps the coroutine in a task and arms a
\* timer for the deadline; the event loop starts the task.
ScoreRequest ==
  /\ call.fn = "score_package" /\ call.pc = "idle"
  /\ \E work \in 0..MaxWork, blocker \in Blockers, outcome \in {"score", "error"} :
       call' = [fn |-> "score_package", pc |-> "running", done |-> FALSE,
                work |-> work, blocker |-> blocker, outcome |-> outcome,
                elapsed |-> 0, awaits |-> 0]
  /\ UNCHANGED <<now, policy, raw, parquet, db, topNjson, topNcsv, feedmd,
                 watchjson, watchcsv, ret, last, exit, ops, probe, store, writer,
                 twice>>

\* A second passes inside a synchronous call of the coroutine.  The call holds
\* the event loop's thread: the coroutine never reaches an await, so the timer
\* callback cannot run and the task cannot be cancelled.
Blocked ==
  /\ call.fn = "score_package" /\ call.pc = "running"
  /\ call.elapsed < call.work
  /\ call' = [call EXCEPT !.elapsed = @ + 1]
  /\ UNCHANGED <<now, policy, raw, parquet, db, topNjson, topNcsv, feedmd,
                 watchjson, watchcsv, ret, last, exit, ops, probe, store, writer,
                 twice>>

\* The coroutine returns or raises in the task step it started in; the task's
\* completion wakes wait_for before the timer callback gets to run, so
\* wait_for hands back the task's result.  The timeout answer needs the task
\* to be pending in the loop when the timer is due, which takes an await.
Answer ==
  /\ call.fn = "score_package" /\ call.pc = "running"
  /\ call.elapsed = call.work
  /\ call' = [call EXCEPT !.pc = "answered", !.done = TRUE]
              @@ [status |-> IF call.awaits > 0 /\ call.work > Deadline THEN 503
                             ELSE IF call.outcome = "score" THEN 200 ELSE 500]
  /\ UNCHANGED <<now, policy, raw, parquet, db, topNjson, topNcsv, feedmd,
                 watchjson, watchcsv, ret, last, exit, ops, probe, store, writer,
                 twice>>

NextApi == ScoreRequest \/ Blocked \/ Answer

SpecApi == InitApi /\ [][NextApi]_vars

\* C17: a request whose scoring work is not finished when the 8-second
\* deadline expires is answered with the timeout error, whichever call blocks.
C17_OverrunAnswersTimeout ==
  (call.fn = "score_package" /\ call.pc = "answered" /\ call.work > Deadline) =>
     call.status = 503

\* Work within the deadline is answered with its own result.
C17_InTimeAnswersResult ==
  (call.fn = "score_package" /\ call.pc = "answered" /\ call.work <= Deadline) =>
     call.status = (IF call.outcome = "score" THEN 200 ELSE 500)

\* ============================================================ GET /feed/...
\* The feed routes in the order main.py registers them; a request is served
\* by the first route whose path matches.
FeedRoutes ==
  <<[segment |-> "{date}", handler |-> "get_feed"],
    [segment |-> "latest", handler |-> "get_latest_feed"]>>

RouteMatches(route, segment) == route.segment = "{date}" \/ route.segment = segment

\* get_feed for any path parameter: a name that is no date directory has no
\* topN.json.
DirName(date) == ToString(date)

get_feed_named(d, name) ==
  IF \E D \in Dates : DirName(D) = name
  THEN get_feed(d, CHOOSE D \in Dates : DirName(D) = name)
  ELSE [status |-> 404, content |-> <<>>]

\* sorted(dates, reverse=True)[0] of the directories holding a topN.json.
get_latest_feed(d) ==
  LET dates == {D \in Dates : d.topNjson[D].exists}
  IN  IF dates = {} THEN [status |-> 404, content |-> <<>>]
      ELSE get_feed_named(d, DirName(CHOOSE D \in dates : \A E \in dates : E <= D))

Dispatch(d, segment) ==
  LET first == CHOOSE i \in DOMAIN FeedRoutes :
                 /\ RouteMatches(FeedRoutes[i], segment)
                 /\ \A j \in 1..(i - 1) : ~RouteMatches(FeedRoutes[j], segment)
  IN  IF FeedRoutes[first].handler = "get_feed" THEN get_feed_named(d, segment)
      ELSE get_latest_feed(d)

\* The feeds generate_feed can have left for a date.
StoredFeeds ==
  LET item(c) == FeedItem(Row(HandleOne(c, Probe(TRUE, "ok", <<"GET">>), FALSE,
                                        StartTime, FALSE).entry, 1))
      a == item(Candidate("pypi", "a"))
      b == item(Candidate("pypi", "b"))
  IN  {Absent, File(<<>>), File(<<a>>), File(<<b>>), File(<<a, b>>), File(<<b, a>>)}

InitFeedApi ==
  /\ now = StartTime
  /\ policy \in [strict : {TRUE}, min_score : {0}, write_watchlist : {TRUE}]
  /\ raw = [d \in Dates |-> [e \in Ecosystems |-> <<>>]]
  /\ parquet = [d \in Dates |-> Absent]
  /\ db = {}
  /\ topNjson \in [Dates -> StoredFeeds]
  /\ topNcsv = [d \in Dates |-> Absent]
  /\ feedmd = [d \in Dates |-> Absent]
  /\ watchjson = [d \in Dates |-> Absent]
  /\ watchcsv = [d \in Dates |-> Absent]
  /\ ret = [d \in Dates |-> NoReturn]
  /\ last = Op("init", 1, 0, FALSE, TRUE)
  /\ exit = 0
  /\ ops = 0
  /\ probe = NoProbe
  /\ store = NoStore
  /\ writer = NoWrite
  /\ twice = NoRun
  /\ call = [fn |-> "GET /feed", done |-> FALSE]

\* GET /feed/{segment} sent to the application.
FeedRequest ==
  /\ call.fn = "GET /feed" /\ ~call.done
  /\ \E segment \in {DirName(D) : D \in Dates} \cup {"latest"} :
       call' = [fn |-> "GET /feed", done |-> TRUE, via |-> "http", segment |-> segment,
                response |-> Dispatch(Disk, segment)]
  /\ UNCHANGED <<now, policy, raw, parquet, db, topNjson, topNcsv, feedmd,
                 watchjson, watchcsv, ret, last, exit, ops, probe, store, writer,
                 twice>>

\* get_latest_feed() called as a function, past the router.
LatestHandlerCall ==
  /\ call.fn = "GET /feed" /\ ~call.done
  /\ call' = [fn |-> "GET /feed", done |-> TRUE, via |-> "call", segment |-> "latest",
              response |-> get_latest_feed(Disk)]
  /\ UNCHANGED <<now, policy, raw, parquet, db, topNjson, topNcsv, feedmd,
                 watchjson, watchcsv, ret, last, exit, ops, probe, store, writer,
                 twice>>

NextFeedApi == FeedRequest \/ LatestHandlerCall

SpecFeedApi == InitFeedApi /\ [][NextFeedApi]_vars

\* The answer the latest-feed request is to get: the feed of the greatest date
\* that has a topN.json, not-found when no date has one.
LatestExpected ==
  IF \A D \in Dates : ~topNjson[D].exists THEN [status |-> 404, content |-> <<>>]
  ELSE LET D == CHOOSE X \in Dates :
                  /\ topNjson[X].exists
                  /\ \A E \in Dates : topNjson[E].exists => E <= X
       IN  [status |-> 200, content |-> topNjson[D].data]

\* C18: GET /feed/latest returns the feed of the greatest date whose directory
\* holds a topN.json, and answers not-found only when no date has one.
C18_LatestFeedServed ==
  (call.fn = "GET /feed" /\ call.done /\ call.via = "http" /\ call.segment = "latest") =>
     call.response = LatestExpected

\* The handler itself, when called, picks the greatest date with a topN.json.
C18_HandlerPicksLatest ==
  (call.fn = "GET /feed" /\ call.done /\ call.via = "call") =>
     call.response = LatestExpected

\* ===================================================== candidate names
\* Names are sequences of characters here, so that case and emptiness are
\* visible.
MaxNameLen == 2

Alphabet == {"a", "A", " "}

Names == UNION {[1..n -> Alphabet] : n \in 0..MaxNameLen}

\* A "name" entry of a registry document, a JSONL record or a request body.
NameFields == {[present |-> FALSE, name |-> <<>>]} \cup
              {[present |-> TRUE, name |-> n] : n \in Names}

\* str.lower()
LowerChar(ch) == IF ch = "A" THEN "a" ELSE ch

Lower(s) == [i \in DOMAIN s |-> LowerChar(s[i])]

\* str.strip()
RECURSIVE LStrip(_)
LStrip(s) == IF s # <<>> /\ Head(s) = " " THEN LStrip(Tail(s)) ELSE s

RECURSIVE RStrip(_)
RStrip(s) ==
  IF s # <<>> /\ s[Len(s)] = " " THEN RStrip(SubSeq(s, 1, Len(s) - 1)) ELSE s

Stripped(s) == RStrip(LStrip(s))

Built(name) == [built |-> TRUE, name |-> name]

NotBuilt == [built |-> FALSE, name |-> <<>>]

\* radar.types.PackageCandidate: name is a plain str field, kept as given; a
\* record without the field fails validation.
PackageCandidate(field) == IF field.present THEN Built(field.name) ELSE NotBuilt

\* PyPISource._parse_package_json: name=info.get("name", "").
_parse_package_json(field) ==
  PackageCandidate([present |-> TRUE, name |-> IF field.present THEN field.name ELSE <<>>])

\* NpmSource._parse_npm_doc: no candidate for a missing or empty name.
_parse_npm_doc(field) ==
  IF ~field.present \/ field.name = <<>> THEN NotBuilt ELSE PackageCandidate(field)

\* The legacy package's PackageCandidate with its validate_name validator.
validate_name(field) ==
  IF ~field.present \/ field.name = <<>> \/ Stripped(field.name) = <<>> THEN NotBuilt
  ELSE Built(Lower(Stripped(field.name)))

BuildPaths == {"pypi", "npm", "jsonl", "score"}

BuildBy(path, field) ==
  CASE path = "pypi" -> _parse_package_json(field)
    [] path = "npm" -> _parse_npm_doc(field)
    [] OTHER -> PackageCandidate(field)

EcosystemOf(path) == IF path = "npm" THEN "npm" ELSE "pypi"

CandidateKey(date, path, built) == <<date, EcosystemOf(path), built.name>>

InitNames ==
  /\ now = StartTime
  /\ policy \in [strict : {TRUE}, min_score : {0}, write_watchlist : {TRUE}]
  /\ raw = [d \in Dates |-> [e \in Ecosystems |-> <<>>]]
  /\ parquet = [d \in Dates |-> Absent]
  /\ db = {}
  /\ topNjson = [d \in Dates |-> Absent]
  /\ topNcsv = [d \in Dates |-> Absent]
  /\ feedmd = [d \in Dates |-> Absent]
  /\ watchjson = [d \in Dates |-> Absent]
  /\ watchcsv = [d \in Dates |-> Absent]
  /\ ret = [d \in Dates |-> NoReturn]
  /\ last = Op("init", 1, 0, FALSE, TRUE)
  /\ exit = 0
  /\ ops = 0
  /\ probe = NoProbe
  /\ store = NoStore
  /\ writer = NoWrite
  /\ twice = NoRun
  /\ call \in [fn : {"PackageCandidate"}, done : {FALSE}, first : NameFields,
               second : NameFields]

\* Two records of one ecosystem and one day are turned into candidates by one
\* of the pipeline's entry points.
BuildCandidates ==
  /\ call.fn = "PackageCandidate" /\ ~call.done
  /\ \E path \in BuildPaths :
       call' = [call EXCEPT !.done = TRUE] @@
               [path |-> path, legacy |-> FALSE,
                out |-> <<BuildBy(path, call.first), BuildBy(path, call.second)>>]
  /\ UNCHANGED <<now, policy, raw, parquet, db, topNjson, topNcsv, feedmd,
                 watchjson, watchcsv, ret, last, exit, ops, probe, store, writer,
                 twice>>

\* The same two records through the legacy package's validated model.
BuildLegacy ==
  /\ call.fn = "PackageCandidate" /\ ~call.done
  /\ call' = [call EXCEPT !.done = TRUE] @@
              [path |-> "pypi", legacy |-> TRUE,
               out |-> <<validate_name(call.first), validate_name(call.second)>>]
  /\ UNCHANGED <<now, policy, raw, parquet, db, topNjson, topNcsv, feedmd,
                 watchjson, watchcsv, ret, last, exit, ops, probe, store, writer,
                 twice>>

NextNames == BuildCandidates \/ BuildLegacy

SpecNames == InitNames /\ [][NextNames]_vars

NamesDone == call.fn = "PackageCandidate" /\ call.done

NormalisedNames ==
  /\ \A i \in 1..2 : call.out[i].built =>
        /\ call.out[i].name # <<>>
        /\ call.out[i].name = Lower(call.out[i].name)
  /\ (call.out[1].built /\ call.out[2].built
       /\ Lower(call.first.name) = Lower(call.second.name)) =>
        CandidateKey(1, call.path, call.out[1]) = CandidateKey(1, call.path, call.out[2])

\* C19: every PackageCandidate entering the pipeline (source adapter, seed or
\* raw JSONL record, score endpoint) has a non-empty, lower-cased name, so two
\* registry names differing only in case get the same (date, ecosystem, name)
\* key.
C19_NamesNormalised == (NamesDone /\ ~call.legacy) => NormalisedNames

\* The legacy package's validator does normalise: stripped, lower-cased,
\* never empty.
C19_LegacyValidatorNormalises ==
  (NamesDone /\ call.legacy) => NormalisedNames

\* ======================================= score_candidates on any candidate
\* Raw files of one day holding at most one candidate per ecosystem, with or
\* without a repository link.
RawFilesOf(e) == {<<>>} \cup {<<c>> : c \in {x \in ScoreCandidates : x.ecosystem = e}}

InitHandle ==
  /\ now = StartTime
  /\ policy \in [strict : BOOLEAN, min_score : {0, 50}, write_watchlist : {TRUE}]
  /\ raw \in {[d \in Dates |-> [e \in Ecosystems |->
                   IF d = DateOf(StartTime) THEN files[e] ELSE <<>>]] :
               files \in [Ecosystems -> UNION {RawFilesOf(e) : e \in Ecosystems}]}
  /\ \A e \in Ecosystems : raw[DateOf(StartTime)][e] \in RawFilesOf(e)
  /\ parquet = [d \in Dates |-> Absent]
  /\ db = {}
  /\ topNjson = [d \in Dates |-> Absent]
  /\ topNcsv = [d \in Dates |-> Absent]
  /\ feedmd = [d \in Dates |-> Absent]
  /\ watchjson = [d \in Dates |-> Absent]
  /\ watchcsv = [d \in Dates |-> Absent]
  /\ ret = [d \in Dates |-> NoReturn]
  /\ last = Op("init", 1, 0, FALSE, TRUE)
  /\ exit = 0
  /\ ops = 0
  /\ probe = NoProbe
  /\ store = NoStore
  /\ writer = NoWrite
  /\ twice = NoRun
  /\ call = [fn |-> "score_candidates", done |-> FALSE]

\* score_candidates(date) over the day's raw files, online or offline.
ScoreAny ==
  /\ call.fn = "score_candidates" /\ ~call.done
  /\ \E offline \in BOOLEAN, globOrder \in GlobOrders :
       \E behs \in [DOMAIN LoadRaw(Disk, DateOf(now), globOrder) ->
                      IF offline THEN {[head |-> "exc", get |-> "exc"]}
                      ELSE PipelineBehaviours] :
         LET s == score_candidates(Disk, DateOf(now), offline, globOrder, behs, now,
                                   policy.strict)
         IN  /\ SetDisk(s.disk)
             /\ ret' = [ret EXCEPT ![DateOf(now)] = Returned(s)]
             /\ last' = Op("score", DateOf(now), 0, FALSE, ~s.raised)
             /\ call' = [fn |-> "score_candidates", done |-> TRUE, offline |-> offline,
                         parsed |-> Len(LoadRaw(Disk, DateOf(now), globOrder))]
  /\ ops' = ops + 1
  /\ UNCHANGED <<now, policy, exit, probe, store, writer, twice>>

NextHandle == ScoreAny

SpecHandle == InitHandle /\ [][NextHandle]_vars

\* C2: score_candidates handles every parsed raw candidate exactly once, as a
\* watchlist entry under strict mode with a failed probe and as a scored
\* candidate otherwise, so scored plus watchlist entries are as many as the
\* parsed candidates (candidates of either ecosystem, with or without a
\* repository link, online or offline).
C2_EveryParsedCandidateHandled ==
  (call.fn = "score_candidates" /\ call.done) =>
     /\ ret[last.date].valid
     /\ Len(ret[last.date].handled) = call.parsed
     /\ \A i \in DOMAIN ret[last.date].handled : HandledAsGated(ret[last.date].handled[i])
     /\ Len(ret[last.date].scored) + Len(ret[last.date].watchlist) = call.parsed

\* Offline, where no enrichment lookup is made, every parsed candidate is
\* handled.
C2_OfflineEveryCandidateHandled ==
  (call.fn = "score_candidates" /\ call.done /\ call.offline) =>
     /\ ret[last.date].valid
     /\ \A i \in DOMAIN ret[last.date].handled : HandledAsGated(ret[last.date].handled[i])
     /\ Len(ret[last.date].scored) + Len(ret[last.date].watchlist) = call.parsed

\* ================================================= hallucination corpus
\* The module globals _EXACT_MATCHES/_REGEX_PATTERNS (as the set of names they
\* match) and _LOADED, over a series of calls in one process.
MaxCalls == 3

CorpusNames == {"x", "y"}

QueryNames == {"x", "y", "X"}

\* name.lower()
LowerName(n) == IF n = "X" THEN "x" ELSE n

\* A YAML file on disk: absent, or the names its entries match.
CorpusFile(exists, names) == [exists |-> exists, names |-> names]

\* config_path: None (the default location), a custom file, a missing file.
CorpusPaths == {"None", "custom", "missing"}

FileAt(files, path) ==
  CASE path = "None" -> files.default
    [] path = "custom" -> files.custom
    [] OTHER -> CorpusFile(FALSE, {})

\* load_hallucinations(config_path) on globals g: the returned corpus and the
\* globals afterwards.
load_hallucinations(g, files, path) ==
  IF g.loaded /\ path = "None" THEN [corpus |-> g.exact, g |-> g]
  ELSE IF ~FileAt(files, path).exists THEN [corpus |-> {}, g |-> g]
  ELSE [corpus |-> FileAt(files, path).names,
        g |-> [exact |-> FileAt(files, path).names, loaded |-> TRUE]]

\* is_known_hallucination(name, config_path): the verdict and the globals.
is_known_hallucination(g, files, name, path) ==
  [known |-> LowerName(name) \in load_hallucinations(g, files, path).corpus,
   g |-> load_hallucinations(g, files, path).g]

\* reload_hallucinations(config_path): _LOADED = False, then a load.
reload_hallucinations(g, files, path) ==
  load_hallucinations([g EXCEPT !.loaded = FALSE], files, path).g

InitCorpus ==
  /\ now = StartTime
  /\ policy \in [strict : {TRUE}, min_score : {0}, write_watchlist : {TRUE}]
  /\ raw = [d \in Dates |-> [e \in Ecosystems |-> <<>>]]
  /\ parquet = [d \in Dates |-> Absent]
  /\ db = {}
  /\ topNjson = [d \in Dates |-> Absent]
  /\ topNcsv = [d \in Dates |-> Absent]
  /\ feedmd = [d \in Dates |-> Absent]
  /\ watchjson = [d \in Dates |-> Absent]
  /\ watchcsv = [d \in Dates |-> Absent]
  /\ ret = [d \in Dates |-> NoReturn]
  /\ last = Op("init", 1, 0, FALSE, TRUE)
  /\ exit = 0
  /\ ops = 0
  /\ probe = NoProbe
  /\ store = NoStore
  /\ writer = NoWrite
  /\ twice = NoRun
  /\ call \in [fn : {"hallucinations"}, done : {FALSE},
               files : [default : {CorpusFile(TRUE, {"x"}), CorpusFile(TRUE, {"x", "y"})},
                        custom : {CorpusFile(TRUE, {"y"}), CorpusFile(TRUE, {})}],
               g : {[exact |-> {}, loaded |-> FALSE]},
               default_loaded : {FALSE},
               asked : {[kind |-> "none", path |-> "None", name |-> "x",
                         after_default |-> FALSE, corpus |-> {}, known |-> FALSE]}]

CorpusFrame ==
  /\ ops' = ops + 1
  /\ UNCHANGED <<now, policy, raw, parquet, db, topNjson, topNcsv, feedmd,
                 watchjson, watchcsv, ret, last, exit, probe, store, writer, twice>>

\* Whether the default corpus has been read into the globals by now.
DefaultLoadedAfter(path, r) ==
  call.default_loaded \/ (path = "None" /\ r.g.loaded /\ ~call.g.loaded)

LoadCorpusCall ==
  /\ call.fn = "hallucinations" /\ ops < MaxCalls
  /\ \E path \in CorpusPaths :
       call' = [call EXCEPT
                  !.g = load_hallucinations(call.g, call.files, path).g,
                  !.default_loaded =
                     DefaultLoadedAfter(path, load_hallucinations(call.g, call.files, path)),
                  !.asked = [kind |-> "load", path |-> path, name |-> "x",
                             after_default |-> call.default_loaded,
                             corpus |-> load_hallucinations(call.g, call.files, path).corpus,
                             known |-> FALSE]]
  /\ CorpusFrame

IsKnownCall ==
  /\ call.fn = "hallucinations" /\ ops < MaxCalls
  /\ \E path \in CorpusPaths, name \in QueryNames :
       call' = [call EXCEPT
                  !.g = is_known_hallucination(call.g, call.files, name, path).g,
                  !.default_loaded =
                     DefaultLoadedAfter(path, is_known_hallucination(call.g, call.files,
                                                                     name, path)),
                  !.asked = [kind |-> "is_known", path |-> path, name |-> name,
                             after_default |-> call.default_loaded,
                             corpus |-> {},
                             known |-> is_known_hallucination(call.g, call.files, name,
                                                              path).known]]
  /\ CorpusFrame

ReloadCall ==
  /\ call.fn = "hallucinations" /\ ops < MaxCalls
  /\ \E path \in CorpusPaths :
       call' = [call EXCEPT
                  !.g = reload_hallucinations(call.g, call.files, path),
                  !.default_loaded =
                     call.default_loaded
                       \/ (path = "None" /\ reload_hallucinations(call.g, call.files, path).loaded),
                  !.asked = [kind |-> "reload", path |-> path, name |-> "x",
                             after_default |-> call.default_loaded,
                             corpus |-> {}, known |-> FALSE]]
  /\ CorpusFrame

NextCorpus == LoadCorpusCall \/ IsKnownCall \/ ReloadCall

SpecCorpus == InitCorpus /\ [][NextCorpus]_vars

\* The latest call named no path and came after the default corpus was loaded.
DefaultAskedAfterLoad ==
  /\ call.fn = "hallucinations"
  /\ call.asked.kind \in {"load", "is_known"}
  /\ call.asked.path = "None" /\ call.asked.after_default

\* C22: once the corpus has been loaded, every later load_hallucinations or
\* is_known_hallucination call without an explicit path answers against the
\* default corpus, whatever custom-path, missing-file or reload calls came in
\* between.
C22_DefaultCallsSeeDefaultCorpus ==
  DefaultAskedAfterLoad =>
     /\ call.asked.kind = "load" => call.asked.corpus = call.files.default.names
     /\ call.asked.kind = "is_known" =>
          call.asked.known = (LowerName(call.asked.name) \in call.files.default.names)

\* ======================================================= retried requests
MaxRetries == 3

\* What one attempt meets: a 2xx response, a 404, another error status, or a
\* transport error.
AttemptOutcomes == {"ok", "404", "500", "exc"}

RECURSIVE Pow2(_)
Pow2(k) == IF k = 0 THEN 1 ELSE 2 * Pow2(k - 1)

\* How a retried request ended: the attempts made, the delays slept (seconds,
\* in order), and the result: the response of an attempt, None, or the error
\* of an attempt raised.
Ended(attempts, waits, result, at) ==
  [attempts |-> attempts, waits |-> waits, result |-> result, at |-> at]

\* PackageSource._retry_request, from the iteration `attempt` on.
RECURSIVE _retry_request(_, _, _, _)
_retry_request(outs, retries, attempt, waits) ==
  IF attempt >= retries THEN Ended(attempt, waits, "raised", attempt)
  ELSE IF outs[attempt + 1] = "ok" THEN Ended(attempt + 1, waits, "response", attempt + 1)
  ELSE _retry_request(outs, retries, attempt + 1,
                      IF attempt < retries - 1 THEN Append(waits, Pow2(attempt))
                      ELSE waits)

\* PyPISource._fetch_package_metadata, from the iteration `attempt` on.
RECURSIVE _fetch_package_metadata(_, _, _, _)
_fetch_package_metadata(outs, retries, attempt, waits) ==
  IF attempt >= retries THEN Ended(attempt, waits, "none", attempt)
  ELSE IF outs[attempt + 1] = "ok" THEN Ended(attempt + 1, waits, "response", attempt + 1)
  ELSE IF outs[attempt + 1] = "404" THEN Ended(attempt + 1, waits, "none", attempt + 1)
  ELSE IF attempt = retries - 1 THEN Ended(attempt + 1, waits, "raised", attempt + 1)
  ELSE _fetch_package_metadata(outs, retries, attempt + 1, waits)

RetryInputs ==
  UNION {[fn : {"retry"}, done : {FALSE}, retries : {n}, outs : [1..n -> AttemptOutcomes]] :
           n \in 1..MaxRetries}

InitRetry ==
  /\ now = StartTime
  /\ policy \in [strict : {TRUE}, min_score : {0}, write_watchlist : {TRUE}]
  /\ raw = [d \in Dates |-> [e \in Ecosystems |-> <<>>]]
  /\ parquet = [d \in Dates |-> Absent]
  /\ db = {}
  /\ topNjson = [d \in Dates |-> Absent]
  /\ topNcsv = [d \in Dates |-> Absent]
  /\ feedmd = [d \in Dates |-> Absent]
  /\ watchjson = [d \in Dates |-> Absent]
  /\ watchcsv = [d \in Dates |-> Absent]
  /\ ret = [d \in Dates |-> NoReturn]
  /\ last = Op("init", 1, 0, FALSE, TRUE)
  /\ exit = 0
  /\ ops = 0
  /\ probe = NoProbe
  /\ store = NoStore
  /\ writer = NoWrite
  /\ twice = NoRun
  /\ call \in RetryInputs

RetryFrame ==
  UNCHANGED <<now, policy, raw, parquet, db, topNjson, topNcsv, feedmd,
              watchjson, watchcsv, ret, last, exit, ops, probe, store, writer, twice>>

\* One call of PackageSource._retry_request(url).
RetryRequestCall ==
  /\ call.fn = "retry" /\ ~call.done
  /\ call' = [call EXCEPT !.done = TRUE] @@
              [by |-> "_retry_request",
               ended |-> _retry_request(call.outs, call.retries, 0, <<>>)]
  /\ RetryFrame

\* One call of PyPISource._fetch_package_metadata(name).
FetchMetadataCall ==
  /\ call.fn = "retry" /\ ~call.done
  /\ call' = [call EXCEPT !.done = TRUE] @@
              [by |-> "_fetch_package_metadata",
               ended |-> _fetch_package_metadata(call.outs, call.retries, 0, <<>>)]
  /\ RetryFrame

NextRetry == RetryRequestCall \/ FetchMetadataCall

SpecRetry == InitRetry /\ [][NextRetry]_vars

\* At most `retries` attempts, a sleep of 2^k seconds after the k-th failed
\* attempt (k from 0) when another attempt follows, the first successful
\* response returned, and the last error raised when every attempt failed.
BacksOff ==
  LET e == call.ended
  IN  /\ e.attempts <= call.retries
      /\ e.waits = [k \in 1..(e.attempts - 1) |-> Pow2(k - 1)]
      /\ (\E i \in 1..call.retries : call.outs[i] = "ok"
             /\ \A j \in 1..(i - 1) : call.outs[j] \in {"500", "exc"}) =>
            /\ e.result = "response"
            /\ call.outs[e.at] = "ok" /\ \A j \in 1..(e.at - 1) : call.outs[j] # "ok"
      /\ (\A i \in 1..call.retries : call.outs[i] \in {"500", "exc"}) =>
            (e.result = "raised" /\ e.at = call.retries)

\* C23: every retried request of a source adapter (_retry_request,
\* _fetch_package_metadata) makes at most `retries` attempts, sleeps 2^k
\* seconds after its k-th failed attempt but not after the last, returns the
\* first successful response and raises the last error when all attempts
\* failed.
C23_RetriesBackOff == (call.fn = "retry" /\ call.done) => BacksOff

\* The same for _retry_request alone.
C23_RetryRequestBacksOff ==
  (call.fn = "retry" /\ call.done /\ call.by = "_retry_request") => BacksOff

\* _fetch_package_metadata makes at most `retries` attempts, returns the first
\* successful response and raises the last error, but never sleeps.
C23_MetadataRetriesWithoutDelay ==
  (call.fn = "retry" /\ call.done /\ call.by = "_fetch_package_metadata") =>
     /\ call.ended.attempts <= call.retries
     /\ call.ended.waits = <<>>
     /\ (\A i \in 1..call.retries : call.outs[i] \in {"500", "exc"}) =>
          (call.ended.result = "raised" /\ call.ended.at = call.retries)

\* ============================================ temporary extraction dirs
\* What happens to one release file: the candidate lists none, the download
\* fails, the archive fails to unpack (after some or no members were
\* extracted), or it unpacks.
ArtifactOutcomes == {"no_url", "download_fails", "extract_fails", "unpacked"}

\* download_and_unpack(url): the directory returned (None when it fails) and
\* the directories it created with mkdtemp.
download_and_unpack(offline, outcome, dir) ==
  IF offline \/ outcome = "download_fails" THEN [path |-> None, made |-> {}]
  ELSE IF outcome = "extract_fails" THEN [path |-> None, made |-> {dir}]
  ELSE [path |-> dir, made |-> {dir}]

NoDownload == [path |-> None, made |-> {}]

\* cleanup_tempdir(temp_dir): the directories that exist afterwards.
cleanup_tempdir(existing, path) == IF path = None THEN existing ELSE existing \ {path}

\* The body of _score_pypi_content_risk once the two downloads have returned:
\* compare, scan, cleanup.  The risk is in hundredths.
AnalyzeUnpacked(sdist, wheel, mismatch, static_risk) ==
  [risk |-> Min((IF sdist.path # None /\ wheel.path # None /\ mismatch THEN 50 ELSE 0)
                + (IF sdist.path # None \/ wheel.path # None THEN static_risk ELSE 0),
                100),
   left |-> cleanup_tempdir(cleanup_tempdir(sdist.made \cup wheel.made, sdist.path),
                            wheel.path)]

\* _score_content_risk for a PyPI candidate: the risk and the temporary
\* directories still on disk when it returns.
AnalyzeArtifacts(offline, sdist, wheel, mismatch, static_risk) ==
  IF offline \/ (sdist = "no_url" /\ wheel = "no_url") THEN [risk |-> 0, left |-> {}]
  ELSE AnalyzeUnpacked(IF sdist = "no_url" THEN NoDownload
                       ELSE download_and_unpack(offline, sdist, "sdist_tmp"),
                       IF wheel = "no_url" THEN NoDownload
                       ELSE download_and_unpack(offline, wheel, "wheel_tmp"),
                       mismatch, static_risk)

InitArtifacts ==
  /\ now = StartTime
  /\ policy \in [strict : {TRUE}, min_score : {0}, write_watchlist : {TRUE}]
  /\ raw = [d \in Dates |-> [e \in Ecosystems |-> <<>>]]
  /\ parquet = [d \in Dates |-> Absent]
  /\ db = {}
  /\ topNjson = [d \in Dates |-> Absent]
  /\ topNcsv = [d \in Dates |-> Absent]
  /\ feedmd = [d \in Dates |-> Absent]
  /\ watchjson = [d \in Dates |-> Absent]
  /\ watchcsv = [d \in Dates |-> Absent]
  /\ ret = [d \in Dates |-> NoReturn]
  /\ last = Op("init", 1, 0, FALSE, TRUE)
  /\ exit = 0
  /\ ops = 0
  /\ probe = NoProbe
  /\ store = NoStore
  /\ writer = NoWrite
  /\ twice = NoRun
  /\ call \in [fn : {"artifacts"}, done : {FALSE}, offline : BOOLEAN,
               sdist : ArtifactOutcomes, wheel : ArtifactOutcomes,
               mismatch : BOOLEAN, static_risk : {0, 30, 100}]

\* Scoring the content of one PyPI candidate.
ArtifactsCall ==
  /\ call.fn = "artifacts" /\ ~call.done
  /\ call' = [call EXCEPT !.done = TRUE] @@
              [out |-> AnalyzeArtifacts(call.offline, call.sdist, call.wheel,
                                        call.mismatch, call.static_risk)]
  /\ UNCHANGED <<now, policy, raw, parquet, db, topNjson, topNcsv, feedmd,
                 watchjson, watchcsv, ret, last, exit, ops, probe, store, writer, twice>>

NextArtifacts == ArtifactsCall

SpecArtifacts == InitArtifacts /\ [][NextArtifacts]_vars

\* C24: when scoring of a PyPI candidate returns, every temporary extraction
\* directory created for it has been deleted, on every path (analysis done,
\* download failed, extraction failed or partial).
C24_NoTempDirLeft == (call.fn = "artifacts" /\ call.done) => call.out.left = {}

\* No directory is left when no archive failed to unpack.
C24_CleanWhenExtractionSucceeds ==
  (call.fn = "artifacts" /\ call.done
     /\ call.sdist # "extract_fails" /\ call.wheel # "extract_fails") =>
     call.out.left = {}

\* ==================================================== one bad item in many
MaxItems == 3

\* One line of a JSONL file, or one package of the changes feed: a record that
\* parses into candidate "a" or "b", a well-formed record that fails to parse
\* into a candidate, or text that is not JSON.
ItemKinds == {"a", "b", "bad_fields", "bad_json"}

GoodItem(x) == x \in {"a", "b"}

Listing(raised, list) == [raised |-> raised, list |-> list]

\* utils.load_jsonl: orjson.loads on every line, nothing caught.
load_jsonl(lines) ==
  IF \E i \in DOMAIN lines : lines[i] = "bad_json" THEN Listing(TRUE, <<>>)
  ELSE Listing(FALSE, lines)

\* The parse loop shared by the readers: a record that fails is skipped.
ParseEach(data) == IF data.raised THEN data ELSE Listing(FALSE, SelectSeq(data.list, GoodItem))

\* The head of score_candidates: load_jsonl(file), then PackageCandidate(**item)
\* under try/except for each record.
LoadRawRecords(lines) == ParseEach(load_jsonl(lines))

\* NpmSource._load_offline_data: load_jsonl(seed), then _parse_npm_doc under
\* try/except for each record.
_load_offline_data(lines) == ParseEach(load_jsonl(lines))

\* NpmSource.fetch_recent online: the changes feed, then one request per
\* package under try/except; a failure of the changes feed gives [].
NpmFetchLive(discovery_fails, items) ==
  IF discovery_fails THEN Listing(FALSE, <<>>)
  ELSE Listing(FALSE, SelectSeq(items, GoodItem))

InitItems ==
  /\ now = StartTime
  /\ policy \in [strict : {TRUE}, min_score : {0}, write_watchlist : {TRUE}]
  /\ raw = [d \in Dates |-> [e \in Ecosystems |-> <<>>]]
  /\ parquet = [d \in Dates |-> Absent]
  /\ db = {}
  /\ topNjson = [d \in Dates |-> Absent]
  /\ topNcsv = [d \in Dates |-> Absent]
  /\ feedmd = [d \in Dates |-> Absent]
  /\ watchjson = [d \in Dates |-> Absent]
  /\ watchcsv = [d \in Dates |-> Absent]
  /\ ret = [d \in Dates |-> NoReturn]
  /\ last = Op("init", 1, 0, FALSE, TRUE)
  /\ exit = 0
  /\ ops = 0
  /\ probe = NoProbe
  /\ store = NoStore
  /\ writer = NoWrite
  /\ twice = NoRun
  /\ call \in [fn : {"items"}, done : {FALSE}, discovery_fails : BOOLEAN,
               items : UNION {[1..n -> ItemKinds] : n \in 0..MaxItems}]

ItemsFrame ==
  UNCHANGED <<now, policy, raw, parquet, db, topNjson, topNcsv, feedmd,
              watchjson, watchcsv, ret, last, exit, ops, probe, store, writer, twice>>

\* score_candidates reading a raw file whose lines are call.items.
LoadRawCall ==
  /\ call.fn = "items" /\ ~call.done /\ ~call.discovery_fails
  /\ call' = [call EXCEPT !.done = TRUE] @@
              [by |-> "score_candidates", out |-> LoadRawRecords(call.items)]
  /\ ItemsFrame

\* fetch_recent offline, the seed file holding the lines call.items.
SeedCall ==
  /\ call.fn = "items" /\ ~call.done /\ ~call.discovery_fails
  /\ call' = [call EXCEPT !.done = TRUE] @@
              [by |-> "seed", out |-> _load_offline_data(call.items)]
  /\ ItemsFrame

\* fetch_recent online, the changes feed listing the packages call.items.
LiveCall ==
  /\ call.fn = "items" /\ ~call.done
  /\ call' = [call EXCEPT !.done = TRUE] @@
              [by |-> "live", out |-> NpmFetchLive(call.discovery_fails, call.items)]
  /\ ItemsFrame

NextItems == LoadRawCall \/ SeedCall \/ LiveCall

SpecItems == InitItems /\ [][NextItems]_vars

\* Only the failing items are missing, the others in their original order;
\* nothing is raised; a failed discovery call gives the empty list.
OnlyBadItemsDropped ==
  /\ ~call.out.raised
  /\ call.out.list = IF call.discovery_fails THEN <<>>
                      ELSE SelectSeq(call.items, GoodItem)

\* C25: in fetch_recent (live or seed) and in score_candidates' loading of raw
\* records, an item whose fetch or parse fails (a malformed JSON record
\* included) is skipped and every other item is returned in its original
\* order; fetch_recent returns [] without raising when discovery fails.
C25_BadItemSkippedOnly == (call.fn = "items" /\ call.done) => OnlyBadItemsDropped

\* The same where no line is malformed JSON, and for the live fetch.
C25_SkippedWhenJsonWellFormed ==
  (call.fn = "items" /\ call.done
     /\ (call.by = "live" \/ \A i \in DOMAIN call.items : call.items[i] # "bad_json")) =>
     OnlyBadItemsDropped

\* ==================================================== PyPI version flip
MaxUpload == 3     \* latest upload time (days)

WindowDays == 2

\* Version strings, and their rank in Python's string order
\* ("0.9" < "1.10" < "1.9" < "2.0").
Versions == {"0.9", "1.10", "1.9", "2.0"}

VersionRank(v) ==
  CASE v = "0.9" -> 1 [] v = "1.10" -> 2 [] v = "1.9" -> 3 [] OTHER -> 4

\* One entry of `releases`: not listed, listed without files or upload_time,
\* or listed with the upload time of its first file.
Releases ==
  {[listed |-> FALSE, timed |-> FALSE, t |-> 0], [listed |-> TRUE, timed |-> FALSE, t |-> 0]}
    \cup {[listed |-> TRUE, timed |-> TRUE, t |-> k] : k \in 0..MaxUpload}

\* The test of the selection loop on one release.
InWindow(releases, current_version, ver) ==
  /\ ver # current_version
  /\ releases[ver].listed /\ releases[ver].timed
  /\ releases[ver].t < releases[current_version].t
  /\ releases[ver].t >= releases[current_version].t - WindowDays

\* previous_version as _analyze_pypi_version_flip finds it: the first release
\* that passes the test, going through the versions in descending string
\* order; None when the current release has no upload time or none passes.
previous_version(releases, current_version) ==
  IF ~releases[current_version].listed \/ ~releases[current_version].timed THEN None
  ELSE IF \A v \in Versions : ~InWindow(releases, current_version, v) THEN None
  ELSE CHOOSE v \in Versions :
         /\ InWindow(releases, current_version, v)
         /\ \A w \in Versions : InWindow(releases, current_version, w) =>
               VersionRank(w) <= VersionRank(v)

InitFlip ==
  /\ now = StartTime
  /\ policy \in [strict : {TRUE}, min_score : {0}, write_watchlist : {TRUE}]
  /\ raw = [d \in Dates |-> [e \in Ecosystems |-> <<>>]]
  /\ parquet = [d \in Dates |-> Absent]
  /\ db = {}
  /\ topNjson = [d \in Dates |-> Absent]
  /\ topNcsv = [d \in Dates |-> Absent]
  /\ feedmd = [d \in Dates |-> Absent]
  /\ watchjson = [d \in Dates |-> Absent]
  /\ watchcsv = [d \in Dates |-> Absent]
  /\ ret = [d \in Dates |-> NoReturn]
  /\ last = Op("init", 1, 0, FALSE, TRUE)
  /\ exit = 0
  /\ ops = 0
  /\ probe = NoProbe
  /\ store = NoStore
  /\ writer = NoWrite
  /\ twice = NoRun
  /\ call \in [fn : {"version_flip"}, done : {FALSE}, current_version : Versions,
               releases : [Versions -> Releases]]

\* _analyze_pypi_version_flip(info_json, policy), online, up to the choice of
\* the release the current one is compared with.
VersionFlipCall ==
  /\ call.fn = "version_flip" /\ ~call.done
  /\ call' = [call EXCEPT !.done = TRUE] @@
              [previous |-> previous_version(call.releases, call.current_version)]
  /\ UNCHANGED <<now, policy, raw, parquet, db, topNjson, topNcsv, feedmd,
                 watchjson, watchcsv, ret, last, exit, ops, probe, store, writer, twice>>

NextFlip == VersionFlipCall

SpecFlip == InitFlip /\ [][NextFlip]_vars

FlipDone ==
  /\ call.fn = "version_flip" /\ call.done
  /\ call.releases[call.current_version].listed
  /\ call.releases[call.current_version].timed

PriorInWindow(v) == InWindow(call.releases, call.current_version, v)

\* C26: the release the current one is compared with is the one uploaded
\* last among those uploaded strictly before the current release and not
\* before the start of the window; when there is none, nothing is compared
\* and (0.0, []) is returned.
C26_ComparesWithLatestPriorUpload ==
  FlipDone =>
     IF \A v \in Versions : ~PriorInWindow(v) THEN call.previous = None
     ELSE /\ call.previous \in Versions
          /\ PriorInWindow(call.previous)
          /\ \A v \in Versions :
               PriorInWindow(v) => call.releases[v].t <= call.releases[call.previous].t

\* What the loop does choose: a release inside the window, the greatest in
\* string order; None when there is none.
C26_ComparesWithGreatestVersionString ==
  FlipDone =>
     IF \A v \in Versions : ~PriorInWindow(v) THEN call.previous = None
     ELSE /\ call.previous \in Versions
          /\ PriorInWindow(call.previous)
          /\ \A v \in Versions :
               PriorInWindow(v) => VersionRank(v) <= VersionRank(call.previous)

\* =========================================== fetch_packages and its sources
\* What a source does when asked: fetch_recent returns candidates, returns
\* none or raises; close returns or raises.
SourceBehaviours == [fetch : {"candidates", "none", "raises"}, close : {"ok", "raises"}]

\* The sources list built from `ecosystems`: PyPI first, then npm.
SourcesFor(ecosystems) ==
  (IF "pypi" \in ecosystems THEN <<"pypi">> ELSE <<>>)
    \o (IF "npm" \in ecosystems THEN <<"npm">> ELSE <<>>)

\* Variant of the loop's control flow in which close is skipped when
\* fetch_recent raised.
CloseUnlessRaised(phase, outcome) ==
  IF phase = "fetch" /\ outcome # "raises" THEN "close" ELSE "next"

\* The control flow of one iteration: after fetch_recent, whatever it did
\* (candidates, `continue`, exception), the finally clause closes the source;
\* after close, whatever it did, the loop goes on.
AfterStep(phase, outcome) == IF phase = "fetch" THEN "close" ELSE "next"

InitSources ==
  /\ now = StartTime
  /\ policy \in [strict : {TRUE}, min_score : {0}, write_watchlist : {TRUE}]
  /\ raw = [d \in Dates |-> [e \in Ecosystems |-> <<>>]]
  /\ parquet = [d \in Dates |-> Absent]
  /\ db = {}
  /\ topNjson = [d \in Dates |-> Absent]
  /\ topNcsv = [d \in Dates |-> Absent]
  /\ feedmd = [d \in Dates |-> Absent]
  /\ watchjson = [d \in Dates |-> Absent]
  /\ watchcsv = [d \in Dates |-> Absent]
  /\ ret = [d \in Dates |-> NoReturn]
  /\ last = Op("init", 1, 0, FALSE, TRUE)
  /\ exit = 0
  /\ ops = 0
  /\ probe = NoProbe
  /\ store = NoStore
  /\ writer = NoWrite
  /\ twice = NoRun
  /\ call \in [fn : {"fetch_packages"}, sources : {SourcesFor(s) : s \in SUBSET Ecosystems},
               beh : [Ecosystems -> SourceBehaviours],
               i : {1}, phase : {"fetch"}, returned : {FALSE},
               fetched : {<<>>}, closed : {<<>>}, saved : {{}}]

SourcesFrame ==
  UNCHANGED <<now, policy, raw, parquet, db, topNjson, topNcsv, feedmd,
              watchjson, watchcsv, ret, last, exit, ops, probe, store, writer, twice>>

Iterating == call.fn = "fetch_packages" /\ ~call.returned /\ call.i <= Len(call.sources)

\* Where the loop stands after a step of the current iteration.
Advance(c, phase) ==
  IF phase = "next" THEN [c EXCEPT !.i = c.i + 1, !.phase = "fetch"]
  ELSE [c EXCEPT !.phase = phase]

\* source.fetch_recent(limit) and, when it returned candidates, the raw file.
FetchRecentStep ==
  /\ Iterating /\ call.phase = "fetch"
  /\ LET e == call.sources[call.i]
     IN  call' = Advance([call EXCEPT
                            !.fetched = Append(@, e),
                            !.saved = IF call.beh[e].fetch = "candidates"
                                      THEN @ \cup {e} ELSE @],
                         AfterStep("fetch", call.beh[e].fetch))
  /\ SourcesFrame

\* source.close() in the finally clause.
CloseStep ==
  /\ Iterating /\ call.phase = "close"
  /\ LET e == call.sources[call.i]
     IN  call' = Advance([call EXCEPT !.closed = Append(@, e)],
                         AfterStep("close", call.beh[e].close))
  /\ SourcesFrame

\* return all_candidates
ReturnStep ==
  /\ call.fn = "fetch_packages" /\ ~call.returned /\ call.i > Len(call.sources)
  /\ call' = [call EXCEPT !.returned = TRUE]
  /\ SourcesFrame

NextSources == FetchRecentStep \/ CloseStep \/ ReturnStep

SpecSources == InitSources /\ [][NextSources]_vars

\* C27: fetch_packages closes every source it iterates exactly once, whether
\* fetch_recent returned candidates, none or raised, and a failing source
\* (in fetch or in close) never keeps the remaining sources from being
\* fetched and closed.
C27_EverySourceClosedOnce ==
  call.fn = "fetch_packages" =>
     /\ \A e \in Ecosystems :
          Cardinality({k \in DOMAIN call.closed : call.closed[k] = e}) <= 1
     /\ call.returned =>
          /\ call.fetched = call.sources
          /\ call.closed = call.sources
          /\ call.saved = {e \in Range(call.sources) : call.beh[e].fetch = "candidates"}

\* fetch_packages returned after a first source that raised in fetch_recent
\* and in close, and a second source that gave candidates.
C27_Witness ==
  /\ call.fn = "fetch_packages" /\ call.returned
  /\ call.sources = <<"pypi", "npm">>
  /\ call.beh["pypi"] = [fetch |-> "raises", close |-> "raises"]
  /\ call.beh["npm"].fetch = "candidates"
  /\ call.closed = <<"pypi", "npm">> /\ "npm" \in call.saved

\* ============================================ generate_feed without rows
\* The files under feeds/{date}/.
FeedDir(date) ==
  <<topNjson[date], topNcsv[date], feedmd[date], watchjson[date], watchcsv[date]>>

\* The step is a call of generate_feed(date) that found no scored row.
FeedFoundNoRows(date) ==
  /\ ops' = ops + 1
  /\ last'.op = "feed" /\ last'.date = date
  /\ RowsOf(db, date) = {}

\* C28: generate_feed for a date that has no scored rows returns without
\* raising and creates or modifies no file under feeds/{date}/.
C28_EmptyFeedTouchesNoFile ==
  [][\A date \in Dates :
        FeedFoundNoRows(date) =>
          /\ last'.complete /\ ~last'.fed
          /\ FeedDir(date)' = FeedDir(date)]_vars

\* generate_feed was called with a watchlist for a date without scored rows.
C28_Witness ==
  /\ last.op = "feed" /\ ~last.fed
  /\ RowsOf(db, last.date) = {}
  /\ ret[last.date].watchlist # <<>>

\* ======================================= scored.parquet and the store rows
\* The (ecosystem, name, score) records a collection of records describes.
Described(records) ==
  {<<x.ecosystem, x.name, x.score>> : x \in records}

\* What processed/{date}/scored.parquet describes; no file, no record.
ParquetDescribes(date) ==
  IF parquet[date].exists THEN Described(Range(parquet[date].data)) ELSE {}

\* score_candidates(date) has just returned.
ScoreReturned == last.op = "score" /\ last.complete /\ ret[last.date].valid

\* C29: after score_candidates(D) returns, scored.parquet of D and the store
\* rows of D describe the same set of (ecosystem, name, score) records,
\* whatever the outcome of the run, a run that routed every candidate to the
\* watchlist included.
C29_ParquetMatchesStore ==
  ScoreReturned =>
    ParquetDescribes(last.date) = Described(RowsOf(db, last.date))

\* The two agree after every run that scored at least one candidate.
C29_MatchWhenSomethingScored ==
  (ScoreReturned /\ ret[last.date].scored # <<>>) =>
    ParquetDescribes(last.date) = Described(RowsOf(db, last.date))

\* A disagreement arises only in a run that routed every candidate to the
\* watchlist while the store held rows of the date from an earlier run.
C29_MismatchOnlyAfterEmptyInsert ==
  (ScoreReturned /\ ParquetDescribes(last.date) # Described(RowsOf(db, last.date))) =>
    /\ ret[last.date].scored = <<>>
    /\ ret[last.date].watchlist # <<>>
    /\ ParquetDescribes(last.date) = {}

\* ============================================ a run after an earlier run
InitStale ==
  /\ PipelineInit
  /\ probe = NoProbe
  /\ store = NoStore
  /\ writer = NoWrite
  /\ twice = NoRun
  /\ call = NoCall

\* A later run-all, the sources and registries answering as they please.
LaterRun ==
  /\ twice.stage = 1
  /\ \E offline \in BOOLEAN, out \in FetchInputs :
       \E reg \in RegistriesFor(offline) :
         /\ RunAllGiven(DateOf(now), offline, out, MaxTopN, reg)
         /\ twice' = [stage |-> 2, offline |-> offline, out |-> out, reg |-> reg,
                      after |-> <<>>, exit |-> 0]
  /\ UNCHANGED <<now, policy, ops, probe, store, writer, call>>

NextStale == FirstRun \/ TickBetween \/ LaterRun

SpecStale == InitStale /\ [][NextStale]_vars

\* The run-all just made ran through fetch, score and feed.
CompleteRun == twice.stage >= 1 /\ last.op = "run_all" /\ last.complete

\* The packages the run's fetch step obtained from the sources.
FetchedInRun == {KeyOf(c) : c \in Range(fetch_packages(Disk, Ecosystems, last.date, twice.out).candidates)}

\* The packages the run's score step scored.
ScoredInRun == {KeyOf(sc.candidate) : sc \in Range(ret[last.date].scored)}

\* The packages of the feed persisted for the run's date.
FeedKeys(date) ==
  IF topNjson[date].exists THEN {KeyOf(x) : x \in Range(topNjson[date].data)} ELSE {}

\* C30: after a complete run fetch, score, feed for date D, every item of
\* the feed persisted for D is a candidate fetched and scored in that same
\* run; nothing left for D by an earlier run contributes to it.
C30_FeedFromThisRunOnly ==
  CompleteRun => FeedKeys(last.date) \subseteq (FetchedInRun \cap ScoredInRun)

\* The feed of a first run on an empty data directory holds only that run's
\* candidates.
C30_FirstRunFeedIsItsOwn ==
  (CompleteRun /\ twice.stage = 1) =>
     FeedKeys(last.date) \subseteq (FetchedInRun \cap ScoredInRun)

\* Whenever the run scored something, the feed holds only what it scored.
C30_OwnFeedWhenSomethingScored ==
  (CompleteRun /\ ret[last.date].scored # <<>>) =>
     FeedKeys(last.date) \subseteq ScoredInRun

====
